---- MODULE Spec2Model ----
(***************************************************************************)
(* A model of the content search and relevance-ranking engine              *)
(* (SearchService) of TextExtractor, of the file store reducer             *)
(* (FileContext) and of the debounce helper.                               *)
(*                                                                         *)
(* A JavaScript string is a sequence of UTF-16 code units, indexed from 0  *)
(* in the operators that model String.prototype methods.  An ASCII code    *)
(* unit is the one-character string of its character, any other code unit  *)
(* the string that names its code point ("U+0130").  A number              *)
(* that the code computes in floating point is an exact rational           *)
(* [n |-> numerator, d |-> denominator] in lowest terms; d = 0 is NaN.     *)
(* An optional property of an object is a record field that is in the      *)
(* record's DOMAIN or not.                                                 *)
(***************************************************************************)
EXTENDS Integers, Sequences, FiniteSets, TLC

VARIABLES
    query,       \* the query string handed to the service
    files,       \* the document collection handed to the service
    options,     \* the SearchOptions object (fields may be absent)
    criteria,    \* the filters of the last advancedSearch call
    op,          \* the entry point that ran last ("none" before any call)
    scans,       \* the matcher invocations of the last call, in call order
    candidates,  \* `results` of the last call before threshold/sort/slice
    filtered,    \* the candidates that passed the threshold
    sorted,      \* the filtered candidates after sortResults
    results,     \* the sequence the call returned
    collation,   \* the string comparison the host applied in localeCompare
                 \* during the last call ("unused" when it was not called)
    facets,      \* the SearchFacets object the last getFacets call returned
    threw,       \* TRUE when the last call raised instead of returning
    instance,    \* the static SearchService.instance
    calls,       \* the calls of concurrent callers, one record per caller
    helper,      \* one call of a helper method: its arguments and its value
    loop,        \* the position of searchInText in its loops
    state,       \* the FileState of the file store
    now,         \* the time in units of the timer's clock
    timeout,     \* the `timeout` variable in the closure of debounce
    timers,      \* the host's timers that are neither fired nor cleared
    log          \* the calls of the debounced function and the runs of func

serviceVars == <<query, files, options, criteria, op, scans, candidates, filtered,
                 sorted, results, collation, facets, threw, instance, calls>>
helperVars == <<helper, loop>>
storeVars == <<state>>
timerVars == <<now, timeout, timers, log>>
vars == <<query, files, options, criteria, op, scans, candidates, filtered,
          sorted, results, collation, facets, threw, instance, calls,
          helper, loop, state, now, timeout, timers, log>>

(***************************************************************************)
(* The model has four parts that share no state: the search service, its   *)
(* helper methods called on their own, the file store and the debounced    *)
(* function.  A specification of one part leaves the others as they are    *)
(* before their first step.                                                *)
(***************************************************************************)
NoHelperCall == [name |-> "none"]
NoLoop == [pc |-> "idle"]
HelperIdle == helper = NoHelperCall /\ loop = NoLoop

initialState ==
    [files |-> <<>>,
     selectedFiles |-> <<>>,
     searchResults |-> <<>>,
     processingStats |->
        [totalFiles |-> 0, processedFiles |-> 0, totalText |-> 0,
         totalImages |-> 0, totalTables |-> 0, processingTime |-> 0],
     isProcessing |-> FALSE,
     error |-> "null"]
StoreIdle == state = initialState

\* `let timeout` holds undefined until the first call assigns it the id of
\* a timer; the ids count from 1 and 0 stands for undefined
undefined == 0
TimerIdle == now = 0 /\ timeout = undefined /\ timers = {} /\ log = <<>>

(***************************************************************************)
(* Generic helpers.  Bind(e, F) is F applied to the value of e: TLC        *)
(* evaluates e once, however often F uses its parameter.                   *)
(***************************************************************************)
Bind(e, F(_)) == CHOOSE r \in {F(v) : v \in {e}} : TRUE
Bind2(e1, e2, F(_, _)) == CHOOSE r \in {F(v1, v2) : v1 \in {e1}, v2 \in {e2}} : TRUE
Bind3(e1, e2, e3, F(_, _, _)) ==
    CHOOSE r \in {F(v1, v2, v3) : v1 \in {e1}, v2 \in {e2}, v3 \in {e3}} : TRUE

Min(a, b) == IF a <= b THEN a ELSE b
Max(a, b) == IF a >= b THEN a ELSE b
SetMin(S) == CHOOSE x \in S : \A y \in S : x <= y
Range(s) == {s[i] : i \in DOMAIN s}

\* the elements of a set of integers in ascending order
Ascending(S0) ==
    Bind(S0, LAMBDA S :
        [k \in 1..Cardinality(S) |->
            CHOOSE i \in S : Cardinality({j \in S : j < i}) = k - 1])

\* the concatenation of a sequence of sequences
Concat(ss0) ==
    Bind(ss0, LAMBDA ss :
        LET RECURSIVE From(_)
            From(i0) == Bind(i0, LAMBDA i :
                IF i > Len(ss) THEN <<>> ELSE ss[i] \o From(i + 1))
        IN  From(1))

RECURSIVE Gcd(_, _)
Gcd(a0, b0) == Bind2(a0, b0, LAMBDA a, b : IF b = 0 THEN a ELSE Gcd(b, a % b))

(***************************************************************************)
(* Numbers: exact rationals in lowest terms, NaN as d = 0.                 *)
(***************************************************************************)
NaN == [n |-> 0, d |-> 0]
IsNaN(x) == x.d = 0
Rat(n0, d0) ==
    Bind2(n0, d0, LAMBDA n, d :
        IF d = 0 THEN NaN
        ELSE Bind(Gcd(IF n < 0 THEN -n ELSE n, d), LAMBDA g :
                [n |-> n \div g, d |-> d \div g]))
RInt(k) == [n |-> k, d |-> 1]
RAdd(x0, y0) ==
    Bind2(x0, y0, LAMBDA x, y :
        IF IsNaN(x) \/ IsNaN(y) THEN NaN ELSE Rat(x.n * y.d + y.n * x.d, x.d * y.d))
RSub(x0, y0) ==
    Bind2(x0, y0, LAMBDA x, y :
        IF IsNaN(x) \/ IsNaN(y) THEN NaN ELSE Rat(x.n * y.d - y.n * x.d, x.d * y.d))
RMul(x0, y0) ==
    Bind2(x0, y0, LAMBDA x, y :
        IF IsNaN(x) \/ IsNaN(y) THEN NaN ELSE Rat(x.n * y.n, x.d * y.d))
\* comparisons with NaN are false, as in IEEE 754
RLt(x0, y0) ==
    Bind2(x0, y0, LAMBDA x, y : ~IsNaN(x) /\ ~IsNaN(y) /\ x.n * y.d < y.n * x.d)
RLe(x0, y0) ==
    Bind2(x0, y0, LAMBDA x, y : ~IsNaN(x) /\ ~IsNaN(y) /\ x.n * y.d <= y.n * x.d)
RGe(x, y) == RLe(y, x)
RGt(x, y) == RLt(y, x)
\* Math.min: NaN if either argument is NaN
RMin(x0, y0) ==
    Bind2(x0, y0, LAMBDA x, y :
        IF IsNaN(x) \/ IsNaN(y) THEN NaN ELSE IF RLe(x, y) THEN x ELSE y)

(***************************************************************************)
(* Characters and String.prototype methods.                                *)
(***************************************************************************)
UpperChars == <<"A","B","C","D","E","F","G","H","I","J","K","L","M",
                "N","O","P","Q","R","S","T","U","V","W","X","Y","Z">>
LowerChars == <<"a","b","c","d","e","f","g","h","i","j","k","l","m",
                "n","o","p","q","r","s","t","u","v","w","x","y","z">>
DigitChars == <<"0","1","2","3","4","5","6","7","8","9">>

UpperSet == Range(UpperChars)
LowerMap == [c \in UpperSet |->
                LowerChars[CHOOSE i \in DOMAIN UpperChars : UpperChars[i] = c]]
LowerOf(c) == IF c \in UpperSet THEN LowerMap[c] ELSE c

\* String.prototype.toLowerCase maps code unit by code unit, except that
\* U+0130 (capital I with dot above) becomes the two code units "i" U+0307:
\* the lower case of a string can be longer than the string.
cDottedI == "U+0130"
cDotAbove == "U+0307"
toLowerCase(s0) ==
    Bind(s0, LAMBDA s :
        IF \A i \in DOMAIN s : s[i] # cDottedI
        THEN [i \in DOMAIN s |-> LowerOf(s[i])]
        ELSE Bind([i \in 1..(Len(s) + 1) |->
                      i + Cardinality({j \in 1..(i - 1) : s[j] = cDottedI})],
                  LAMBDA at :
                \* at[i] is where the lower case of s[i] starts
                [k \in 1..(at[Len(s) + 1] - 1) |->
                    Bind(CHOOSE i \in DOMAIN s : at[i] <= k /\ k < at[i + 1],
                         LAMBDA i :
                        IF s[i] # cDottedI THEN LowerOf(s[i])
                        ELSE IF k = at[i] THEN "i" ELSE cDotAbove)]))

\* the regular expression classes \w and \s
WordChars == Range(UpperChars) \cup Range(LowerChars) \cup Range(DigitChars) \cup {"_"}
SpaceChars == {" ", "\t", "\n"}
IsWordChar(c) == c \in WordChars
IsSpaceChar(c) == c \in SpaceChars

\* String.prototype.substring(a, b): both ends clamped, swapped if a > b
substring(s0, a0, b0) ==
    Bind3(s0, a0, b0, LAMBDA s, a, b :
        Bind2(Min(Max(a, 0), Len(s)), Min(Max(b, 0), Len(s)), LAMBDA ca, cb :
            SubSeq(s, Min(ca, cb) + 1, Max(ca, cb))))

\* String.prototype.indexOf(t, from): 0-based offset of the first occurrence
\* of t at or after from, -1 if there is none
indexOf(s0, t0, from0) ==
    Bind3(s0, t0, from0, LAMBDA s, t, from :
        Bind({i \in Min(Max(from, 0), Len(s))..(Len(s) - Len(t)) :
                 \A k \in 1..Len(t) : s[i + k] = t[k]},
             LAMBDA hits : IF hits = {} THEN -1 ELSE SetMin(hits)))

\* String.prototype.includes
includes(s, t) == indexOf(s, t, 0) # -1

\* String.prototype.split(re) for a regular expression re = [class]+ :
\* the pieces between maximal runs of separator characters; a separator at
\* either end of s leaves an empty piece there, and "" splits into <<"">>.
Split(s0, IsSep(_)) ==
    Bind(s0, LAMBDA s :
        LET starts == {i \in 1..Len(s) : ~IsSep(s[i]) /\ (i = 1 \/ IsSep(s[i - 1]))}
            EndOf(i) == SetMin({j \in i..Len(s) : j = Len(s) \/ IsSep(s[j + 1])})
            Piece(i0) == Bind(i0, LAMBDA i : SubSeq(s, i, EndOf(i)))
            first == IF s = <<>> \/ IsSep(s[1]) THEN <<<<>>>> ELSE <<>>
            last  == IF s # <<>> /\ IsSep(s[Len(s)]) THEN <<<<>>>> ELSE <<>>
        IN  Bind(Ascending(starts), LAMBDA order :
                first \o [k \in DOMAIN order |-> Piece(order[k])] \o last))

\* String.prototype.trim
RECURSIVE trim(_)
trim(s0) ==
    Bind(s0, LAMBDA s :
        IF s = <<>> THEN s
        ELSE IF IsSpaceChar(s[1]) THEN trim(Tail(s))
        ELSE IF IsSpaceChar(s[Len(s)]) THEN trim(SubSeq(s, 1, Len(s) - 1))
        ELSE s)

\* Array.prototype.join
RECURSIVE join(_, _)
join(ss0, sep) ==
    Bind(ss0, LAMBDA ss :
        IF ss = <<>> THEN <<>>
        ELSE IF Len(ss) = 1 THEN ss[1]
        ELSE ss[1] \o sep \o join(Tail(ss), sep))

\* ${n} in a template literal, for a non-negative integer n
RECURSIVE NumStr(_)
NumStr(n0) ==
    Bind(n0, LAMBDA n :
        IF n < 10 THEN <<DigitChars[n + 1]>>
        ELSE NumStr(n \div 10) \o <<DigitChars[(n % 10) + 1]>>)

\* Array.prototype.sort with a comparator, which ECMAScript 2019 requires to
\* be stable: Before(a, b) is "compare(a, b) < 0".  Each element is inserted
\* behind every element it is not strictly before.
StableSort(seq0, Before(_, _)) ==
    Bind(seq0, LAMBDA seq :
        LET RECURSIVE Insert(_, _)
            Insert(x0, done0) == Bind2(x0, done0, LAMBDA x, done :
                IF done = <<>> THEN <<x>>
                ELSE IF Before(x, Head(done)) THEN <<x>> \o done
                ELSE <<Head(done)>> \o Insert(x, Tail(done)))
            RECURSIVE Sort(_, _)
            Sort(i0, done0) == Bind2(i0, done0, LAMBDA i, done :
                IF i > Len(seq) THEN done ELSE Sort(i + 1, Insert(seq[i], done)))
        IN  Sort(1, <<>>))

\* String.prototype.localeCompare is an implementation-defined comparison.
\* The hosts differ: an engine with a collator compares first by the letters
\* without regard to case (punctuation before digits before letters) and
\* orders strings that are equal up to case by the first differing character,
\* lower case first or, in some locales, upper case first; an engine without
\* a collator compares the UTF-16 code units.
HostCollations == {"lowerFirst", "upperFirst", "codeUnit"}
CodeUnitOrder ==
    <<" ", "!", "'", "(", ")", ",", "-", ".">> \o DigitChars
    \o <<":", ";", "?">> \o UpperChars \o <<"_">> \o LowerChars
CodeUnitWeight ==
    [c \in Range(CodeUnitOrder) |->
        CHOOSE i \in DOMAIN CodeUnitOrder : CodeUnitOrder[i] = c]
CodeUnitCompare(a0, b0) ==
    Bind2(a0, b0, LAMBDA a, b :
        LET n == Min(Len(a), Len(b))
            diff == {i \in 1..n : a[i] # b[i]}
        IN  IF diff = {}
            THEN (IF Len(a) < Len(b) THEN -1 ELSE IF Len(a) > Len(b) THEN 1 ELSE 0)
            ELSE IF CodeUnitWeight[a[SetMin(diff)]] < CodeUnitWeight[b[SetMin(diff)]]
                 THEN -1 ELSE 1)
CollationOrder ==
    <<" ", "_", "-", ",", ";", ":", "!", "?", ".", "'", "(", ")">>
    \o DigitChars \o LowerChars
CollationWeight ==
    [c \in Range(CollationOrder) |->
        CHOOSE i \in DOMAIN CollationOrder : CollationOrder[i] = c]
PrimaryWeight(c) ==
    IF LowerOf(c) \in DOMAIN CollationWeight THEN CollationWeight[LowerOf(c)] ELSE 0
RECURSIVE PrimaryCompare(_, _)
PrimaryCompare(a0, b0) ==
    Bind2(a0, b0, LAMBDA a, b :
        IF a = <<>> /\ b = <<>> THEN 0
        ELSE IF a = <<>> THEN -1
        ELSE IF b = <<>> THEN 1
        ELSE IF PrimaryWeight(Head(a)) < PrimaryWeight(Head(b)) THEN -1
        ELSE IF PrimaryWeight(Head(a)) > PrimaryWeight(Head(b)) THEN 1
        ELSE PrimaryCompare(Tail(a), Tail(b)))
RECURSIVE CaseCompare(_, _)
CaseCompare(a0, b0) ==
    Bind2(a0, b0, LAMBDA a, b :
        IF a = <<>> \/ b = <<>> THEN 0
        ELSE IF Head(a) = Head(b) THEN CaseCompare(Tail(a), Tail(b))
        ELSE IF Head(a) = LowerOf(Head(a)) THEN -1 ELSE 1)
localeCompare(a0, b0, host) ==
    Bind2(a0, b0, LAMBDA a, b :
        IF host = "codeUnit" THEN CodeUnitCompare(a, b)
        ELSE Bind(PrimaryCompare(a, b), LAMBDA primary :
                IF primary # 0 THEN primary
                ELSE IF host = "lowerFirst" THEN CaseCompare(a, b)
                ELSE 0 - CaseCompare(a, b)))

(***************************************************************************)
(* String literals of the code.                                            *)
(***************************************************************************)
sEllipsis == <<".",".",".">>
sDash == <<"-">>
sSentenceJoin == <<"."," ">>
sDot == <<".">>
sTitlePrefix == <<"T","i","t","l","e",":"," ">>
sAuthorPrefix == <<"A","u","t","h","o","r",":"," ">>
sHeaderPrefix == <<"T","a","b","l","e"," ","h","e","a","d","e","r",":"," ">>
sCellPrefix == <<"T","a","b","l","e"," ","c","e","l","l"," ","(","R","o","w"," ">>
sCellCol == <<",", " ", "C","o","l"," ">>
sCellSuffix == <<")",":"," ">>
sKeywordPrefix == <<"K","e","y","w","o","r","d",":"," ">>
sNoSummary == <<"N","o"," ","s","u","m","m","a","r","y"," ","a","v","a","i","l","a","b","l","e">>

(***************************************************************************)
(* Helper methods of SearchService.                                        *)
(***************************************************************************)
\* an optional property that is present and truthy (a non-empty string)
Truthy(obj, f) == f \in DOMAIN obj /\ obj[f] # <<>>

ReplaceNonWord(s0) ==
    Bind(s0, LAMBDA s :
        [i \in DOMAIN s |-> IF IsWordChar(s[i]) \/ IsSpaceChar(s[i]) THEN s[i] ELSE " "])
LongEnough(term) == Len(term) > 2
preprocessQuery(q) ==
    SelectSeq(Split(ReplaceNonWord(toLowerCase(q)), IsSpaceChar), LongEnough)

contextLength == 150
\* a context that never marks the cut at its end
extractContextNoTrailingEllipsis(text0, position0, matchLength0) ==
    Bind3(text0, position0, matchLength0, LAMBDA text, position, matchLength :
        Bind2(Max(0, position - contextLength \div 2),
              Min(Len(text), position + matchLength + contextLength \div 2),
              LAMBDA start, end :
            (IF start > 0 THEN sEllipsis ELSE <<>>) \o substring(text, start, end)))
extractContext(text0, position0, matchLength0) ==
    Bind3(text0, position0, matchLength0, LAMBDA text, position, matchLength :
        Bind2(Max(0, position - contextLength \div 2),
              Min(Len(text), position + matchLength + contextLength \div 2),
              LAMBDA start, end :
            Bind(substring(text, start, end), LAMBDA body :
                (IF start > 0 THEN sEllipsis ELSE <<>>)
                \o body
                \o (IF end < Len(text) THEN sEllipsis ELSE <<>>))))

excerptLength == 200
IsSentenceEnd(c) == c \in {".", "!", "?"}
extractRelevantContext(q0, text0) ==
    Bind2(preprocessQuery(q0), text0, LAMBDA queryTerms, text :
        LET Relevant(sentence) ==
                \E k \in DOMAIN queryTerms : includes(toLowerCase(sentence), queryTerms[k])
        IN  Bind(SelectSeq(Split(text, IsSentenceEnd), Relevant),
                 LAMBDA relevantSentences :
                IF Len(relevantSentences) > 0
                THEN trim(join(SubSeq(relevantSentences, 1,
                                      Min(2, Len(relevantSentences))),
                               sSentenceJoin)) \o sDot
                ELSE substring(text, 0, excerptLength) \o sEllipsis))

\* (s.match(new RegExp(t, 'g')) || []).length for a pattern t without
\* metacharacters: the non-overlapping occurrences found left to right; the
\* empty pattern matches once at every offset 0..Len(s).
RECURSIVE MatchCountFrom(_, _, _)
MatchCountFrom(s, t, from) ==
    Bind(indexOf(s, t, from), LAMBDA i :
        IF i = -1 THEN 0 ELSE 1 + MatchCountFrom(s, t, i + Len(t)))
MatchCount(s0, t0) ==
    Bind2(s0, t0, LAMBDA s, t :
        IF t = <<>> THEN Len(s) + 1 ELSE MatchCountFrom(s, t, 0))

\* the score before the final Math.min(1, score)
RawRelevanceScore(term0, fullText0, context0) ==
    Bind3(toLowerCase(term0), toLowerCase(fullText0), toLowerCase(context0),
          LAMBDA termLower, textLower, contextLower :
        LET base      == Rat(1, 2)
            exact     == IF includes(contextLower, termLower)
                         THEN RAdd(base, Rat(3, 10)) ELSE base
            termCount == MatchCount(textLower, termLower)
            freq      == RAdd(exact, RMin(Rat(1, 5), Rat(termCount, 20)))
        IN  Bind(indexOf(textLower, termLower, 0), LAMBDA position :
                \* position / fullText.length: the offset in the lower-case
                \* text over the length of the text as given
                LET relativePosition == Rat(position, Len(fullText0))
                    score == IF position # -1
                             THEN RAdd(freq, RMul(RSub(RInt(1), relativePosition),
                                                  Rat(1, 10)))
                             ELSE freq
                IN  score))

\* a scorer that forgets the clamp
calculateRelevanceScoreUnclamped(term, fullText, context) ==
    RawRelevanceScore(term, fullText, context)
calculateRelevanceScore(term, fullText, context) ==
    RMin(RInt(1), RawRelevanceScore(term, fullText, context))

\* a similarity that divides by the number of query words
calculateSemanticSimilarityOverQuery(q, text) ==
    Bind2(Range(preprocessQuery(q)), Range(preprocessQuery(text)),
          LAMBDA queryWords, textWords :
        IF Cardinality(queryWords) > 0
        THEN Rat(Cardinality({w \in queryWords : w \in textWords}),
                 Cardinality(queryWords))
        ELSE RInt(0))
calculateSemanticSimilarity(q, text) ==
    Bind2(Range(preprocessQuery(q)), Range(preprocessQuery(text)),
          LAMBDA queryWords, textWords :
        Bind2({w \in queryWords : w \in textWords}, queryWords \cup textWords,
              LAMBDA intersection, union :
            IF Cardinality(union) > 0
            THEN Rat(Cardinality(intersection), Cardinality(union))
            ELSE RInt(0)))

ByRelevance(a, b) == RLt(b.relevanceScore, a.relevanceScore)
\* a sort that is not stable: an element goes in front of its equals
NotAfterByRelevance(a, b) == ~ByRelevance(b, a)
sortResultsUnstable(rs, sortBy, host) ==
    LET ByName(a, b) == localeCompare(a.fileName, b.fileName, host) < 0
    IN  CASE sortBy = "relevance" -> StableSort(rs, NotAfterByRelevance)
          [] sortBy = "name"      -> StableSort(rs, ByName)
          [] OTHER                -> rs
\* a sort that treats every other key as relevance
sortResultsOtherAsRelevance(rs, sortBy, host) ==
    LET ByName(a, b) == localeCompare(a.fileName, b.fileName, host) < 0
    IN  CASE sortBy = "name" -> StableSort(rs, ByName)
          [] OTHER            -> StableSort(rs, ByRelevance)
\* a sort that does not know the key `name`
sortResultsWithoutName(rs, sortBy, host) ==
    CASE sortBy = "relevance" -> StableSort(rs, ByRelevance)
      [] OTHER                -> rs
\* host is the comparison that localeCompare applies on the host
sortResults(rs, sortBy, host) ==
    LET ByName(a, b) == localeCompare(a.fileName, b.fileName, host) < 0
    IN  CASE sortBy = "relevance" -> StableSort(rs, ByRelevance)
          [] sortBy = "name"      -> StableSort(rs, ByName)
          [] OTHER                -> rs

ResultKey(r) == r.fileId \o sDash \o r.content
deduplicateResults(rs0) ==
    Bind(rs0, LAMBDA rs :
        LET RECURSIVE Walk(_, _)
            Walk(i0, seen0) == Bind2(i0, seen0, LAMBDA i, seen :
                IF i > Len(rs) THEN <<>>
                ELSE Bind(ResultKey(rs[i]), LAMBDA key :
                        IF key \in seen THEN Walk(i + 1, seen)
                        ELSE <<rs[i]>> \o Walk(i + 1, seen \cup {key})))
        IN  Walk(1, {}))

(***************************************************************************)
(* The per-field matchers.                                                 *)
(***************************************************************************)
titleScore == Rat(9, 10)
\* an author match ranked like a title match
authorScoreAsTitle == Rat(9, 10)
authorScore == Rat(8, 10)
headerScore == Rat(7, 10)
cellScore == Rat(6, 10)
keywordScore == Rat(8, 10)

Result(fileId, fileName, content, score, matchType, context) ==
    [fileId |-> fileId, fileName |-> fileName, content |-> content,
     relevanceScore |-> score, matchType |-> matchType, context |-> context]

\* the while loop of searchInText for one term, from scan cursor `index`
RECURSIVE TermOccurrences(_, _, _, _, _, _, _)
TermOccurrences(term, text, textLower, index, fileId, fileName, matchType) ==
    Bind(toLowerCase(term), LAMBDA termLower :
    Bind(indexOf(textLower, termLower, index), LAMBDA found :
        IF found = -1 THEN <<>>
        ELSE Bind(extractContext(text, found, Len(termLower)), LAMBDA context :
                <<Result(fileId, fileName, context,
                         calculateRelevanceScore(term, text, context),
                         matchType, context)>>
                \o TermOccurrences(term, text, textLower, found + Len(termLower),
                                   fileId, fileName, matchType))))

searchInText(q0, text0, fileId, fileName, matchType) ==
    Bind3(preprocessQuery(q0), text0, toLowerCase(text0),
          LAMBDA queryTerms, text, textLower :
        deduplicateResults(
            Concat([k \in DOMAIN queryTerms |->
                       TermOccurrences(queryTerms[k], text, textLower, 0,
                                       fileId, fileName, matchType)])))

searchInMetadata(q0, file0) ==
    Bind3(toLowerCase(q0), file0, file0.extractedContent.metadata,
          LAMBDA queryLower, file, metadata :
        LET title == IF Truthy(metadata, "title")
                        /\ includes(toLowerCase(metadata.title), queryLower)
                     THEN <<Result(file.id, file.name, metadata.title, titleScore,
                                   "metadata", sTitlePrefix \o metadata.title)>>
                     ELSE <<>>
            author == IF Truthy(metadata, "author")
                         /\ includes(toLowerCase(metadata.author), queryLower)
                      THEN <<Result(file.id, file.name, metadata.author, authorScore,
                                    "metadata", sAuthorPrefix \o metadata.author)>>
                      ELSE <<>>
        IN  title \o author)

\* a context that shows the 0-based indices
CellContextZeroBased(rowIndex, colIndex, cell) ==
    sCellPrefix \o NumStr(rowIndex) \o sCellCol \o NumStr(colIndex) \o sCellSuffix \o cell
\* `Table cell (Row ${rowIndex + 1}, Col ${colIndex + 1}): ${cell}`
CellContext(rowIndex, colIndex, cell) ==
    sCellPrefix \o NumStr(rowIndex + 1) \o sCellCol \o NumStr(colIndex + 1)
    \o sCellSuffix \o cell

searchInTable(q0, table0, fileId, fileName) ==
    Bind2(toLowerCase(q0), table0, LAMBDA queryLower, table :
        LET Header(h) ==
                IF includes(toLowerCase(table.headers[h]), queryLower)
                THEN <<Result(fileId, fileName, table.headers[h], headerScore, "text",
                              sHeaderPrefix \o table.headers[h])>>
                ELSE <<>>
            \* rowIndex and colIndex count from 0, as in the code
            Cell(rowIndex, colIndex) ==
                Bind(table.rows[rowIndex + 1][colIndex + 1], LAMBDA cell :
                    IF includes(toLowerCase(cell), queryLower)
                    THEN <<Result(fileId, fileName, cell, cellScore, "text",
                                  CellContext(rowIndex, colIndex, cell))>>
                    ELSE <<>>)
            Row(rowIndex) ==
                Concat([c \in DOMAIN table.rows[rowIndex + 1] |-> Cell(rowIndex, c - 1)])
        IN  Concat([h \in DOMAIN table.headers |-> Header(h)])
            \o Concat([r \in DOMAIN table.rows |-> Row(r - 1)]))

searchInKeywords(q0, keywords0, fileId, fileName) ==
    Bind2(toLowerCase(q0), keywords0, LAMBDA queryLower, keywords :
        LET Keyword(k) ==
                IF includes(toLowerCase(keywords[k]), queryLower)
                THEN <<Result(fileId, fileName, keywords[k], keywordScore, "text",
                              sKeywordPrefix \o keywords[k])>>
                ELSE <<>>
        IN  Concat([k \in DOMAIN keywords |-> Keyword(k)]))

(***************************************************************************)
(* search: the matcher invocations of one call, document by document, in   *)
(* the order of the loop body, then threshold, sort and slice.             *)
(***************************************************************************)
\* a destructured option with its default
Opt(o, f, default) == IF f \in DOMAIN o THEN o[f] ELSE default

\* the destructured include flags, true when omitted
includeText(o) == Opt(o, "includeText", TRUE)
\* a flag that reads its neighbour
includeOCRFromMetadata(o) == Opt(o, "includeMetadata", TRUE)
includeOCR(o) == Opt(o, "includeOCR", TRUE)
includeMetadata(o) == Opt(o, "includeMetadata", TRUE)

Scan(matcher, file, input, out) ==
    [matcher |-> matcher, fileId |-> file.id, input |-> input, out |-> out]

FileScans(q0, file0, o0) ==
    Bind3(q0, file0, o0, LAMBDA q, file, o :
    Bind(file.extractedContent, LAMBDA content :
        LET text == IF includeText(o) /\ Truthy(content, "text")
                    THEN <<Scan("text", file, content.text,
                                searchInText(q, content.text, file.id, file.name, "text"))>>
                    ELSE <<>>
            Ocr(i) == IF Truthy(content.images[i], "ocrText")
                      THEN <<Scan("ocr", file, content.images[i].ocrText,
                                  searchInText(q, content.images[i].ocrText,
                                               file.id, file.name, "ocr"))>>
                      ELSE <<>>
            ocr  == IF includeOCR(o)
                    THEN Concat([i \in DOMAIN content.images |-> Ocr(i)])
                    ELSE <<>>
            meta == IF includeMetadata(o)
                    THEN <<Scan("metadata", file, content.metadata,
                                searchInMetadata(q, file))>>
                    ELSE <<>>
            tabs == [t \in DOMAIN content.tables |->
                        Scan("table", file, content.tables[t],
                             searchInTable(q, content.tables[t], file.id, file.name))]
            summ == IF Truthy(content, "summary")
                    THEN <<Scan("summary", file, content.summary,
                                searchInText(q, content.summary, file.id, file.name,
                                             "text"))>>
                    ELSE <<>>
            keys == IF "keywords" \in DOMAIN content
                    THEN <<Scan("keywords", file, content.keywords,
                                searchInKeywords(q, content.keywords, file.id,
                                                 file.name))>>
                    ELSE <<>>
        IN  text \o ocr \o meta \o tabs \o summ \o keys))

SearchScans(q0, fs0, o0) ==
    Bind3(q0, fs0, o0, LAMBDA q, fs, o :
        Concat([i \in DOMAIN fs |-> FileScans(q, fs[i], o)]))

\* a search that deduplicates the whole candidate list once more
ScanResultsDeduplicated(sc0) ==
    Bind(sc0, LAMBDA sc : deduplicateResults(Concat([i \in DOMAIN sc |-> sc[i].out])))
ScanResults(sc0) == Bind(sc0, LAMBDA sc : Concat([i \in DOMAIN sc |-> sc[i].out]))

\* a slice that keeps one entry too many
sliceOneMore(seq0, n0) ==
    Bind2(seq0, n0, LAMBDA seq, n : SubSeq(seq, 1, Min(n + 1, Len(seq))))
\* Array.prototype.slice(0, n)
slice(seq0, n0) ==
    Bind2(seq0, n0, LAMBDA seq, n :
        SubSeq(seq, 1, IF n < 0 THEN Max(Len(seq) + n, 0) ELSE Min(n, Len(seq))))

defaultThreshold == Rat(1, 10)
defaultMaxResults == 50
\* a filter with the comparison turned round
ThresholdFilterBelow(rs, threshold0) ==
    Bind(threshold0, LAMBDA threshold :
        LET Passes(r) == RLe(r.relevanceScore, threshold) IN SelectSeq(rs, Passes))
\* a filter that also drops a score equal to the threshold
ThresholdFilterStrict(rs, threshold0) ==
    Bind(threshold0, LAMBDA threshold :
        LET Passes(r) == RGt(r.relevanceScore, threshold) IN SelectSeq(rs, Passes))
ThresholdFilter(rs, threshold0) ==
    Bind(threshold0, LAMBDA threshold :
        LET Passes(r) == RGe(r.relevanceScore, threshold) IN SelectSeq(rs, Passes))

\* the stages of search(q, fs, o)
SearchStages(q, fs, o0, host) ==
    Bind(o0, LAMBDA o :
    Bind(SearchScans(q, fs, o), LAMBDA sc :
    Bind(ScanResults(sc), LAMBDA cand :
    Bind(ThresholdFilter(cand, Opt(o, "threshold", defaultThreshold)), LAMBDA filt :
    Bind(sortResults(filt, Opt(o, "sortBy", "relevance"), host), LAMBDA srt :
        [scans |-> sc, candidates |-> cand, filtered |-> filt, sorted |-> srt,
         results |-> slice(srt, Opt(o, "maxResults", defaultMaxResults)),
         collation |-> host, files |-> fs, threw |-> FALSE])))))

(***************************************************************************)
(* semanticSearch                                                          *)
(***************************************************************************)
semanticTextThreshold == Rat(1, 10)
semanticSummaryThreshold == Rat(2, 10)
semanticDefaultMaxResults == 20

\* a gate that lets a similarity equal to the threshold through
ExceedsOrEquals(similarity, threshold) == RGe(similarity, threshold)
\* similarity > 0.1, similarity > 0.2
Exceeds(similarity, threshold) == RGt(similarity, threshold)

SemanticScan(matcher, file, input, similarity, out) ==
    [matcher |-> matcher, fileId |-> file.id, input |-> input,
     similarity |-> similarity, out |-> out]

SemanticFileScans(q0, file0) ==
    Bind3(q0, file0, file0.extractedContent, LAMBDA q, file, content :
        LET text ==
                IF Truthy(content, "text")
                THEN Bind(calculateSemanticSimilarity(q, content.text),
                          LAMBDA similarity :
                        <<SemanticScan("semanticText", file, content.text, similarity,
                            IF Exceeds(similarity, semanticTextThreshold)
                            THEN <<Result(file.id, file.name,
                                          substring(content.text, 0, excerptLength)
                                          \o sEllipsis,
                                          similarity, "text",
                                          extractRelevantContext(q, content.text))>>
                            ELSE <<>>)>>)
                ELSE <<>>
            summ ==
                IF Truthy(content, "summary")
                THEN Bind(calculateSemanticSimilarity(q, content.summary),
                          LAMBDA similarity :
                        <<SemanticScan("semanticSummary", file, content.summary,
                            similarity,
                            IF Exceeds(similarity, semanticSummaryThreshold)
                            THEN <<Result(file.id, file.name, content.summary,
                                          similarity, "text", content.summary)>>
                            ELSE <<>>)>>)
                ELSE <<>>
        IN  text \o summ)

SemanticStages(q0, fs0, maxResults) ==
    Bind2(q0, fs0, LAMBDA q, fs :
    Bind(Concat([i \in DOMAIN fs |-> SemanticFileScans(q, fs[i])]), LAMBDA sc :
    Bind(ScanResults(sc), LAMBDA cand :
    Bind(sortResults(cand, "relevance", "unused"), LAMBDA srt :
        [scans |-> sc, candidates |-> cand, filtered |-> cand, sorted |-> srt,
         results |-> slice(srt, maxResults), collation |-> "unused",
         files |-> fs, threw |-> FALSE]))))

(***************************************************************************)
(* advancedSearch                                                          *)
(***************************************************************************)
\* filters whose ranges exclude their bounds
AdvancedFilterExclusive(crit0, fs0) ==
    Bind2(crit0, fs0, LAMBDA crit, fs :
        LET TypeOk(file) == \E k \in DOMAIN crit.fileTypes : crit.fileTypes[k] = file.type
            DateOk(file) == /\ file.uploadDate > crit.dateRange.start
                            /\ file.uploadDate < crit.dateRange.end
            SizeOk(file) == /\ file.size > crit.sizeRange.min
                            /\ file.size < crit.sizeRange.max
        IN  Bind(IF "fileTypes" \in DOMAIN crit /\ Len(crit.fileTypes) > 0
                 THEN SelectSeq(fs, TypeOk) ELSE fs, LAMBDA byType :
            Bind(IF "dateRange" \in DOMAIN crit
                 THEN SelectSeq(byType, DateOk) ELSE byType, LAMBDA byDate :
                IF "sizeRange" \in DOMAIN crit
                THEN SelectSeq(byDate, SizeOk) ELSE byDate)))
\* the documents that pass the filters of the criteria, in their order
AdvancedFilter(crit0, fs0) ==
    Bind2(crit0, fs0, LAMBDA crit, fs :
        LET TypeOk(file) == \E k \in DOMAIN crit.fileTypes : crit.fileTypes[k] = file.type
            DateOk(file) == /\ file.uploadDate >= crit.dateRange.start
                            /\ file.uploadDate <= crit.dateRange.end
            SizeOk(file) == /\ file.size >= crit.sizeRange.min
                            /\ file.size <= crit.sizeRange.max
        IN  Bind(IF "fileTypes" \in DOMAIN crit /\ Len(crit.fileTypes) > 0
                 THEN SelectSeq(fs, TypeOk) ELSE fs, LAMBDA byType :
            Bind(IF "dateRange" \in DOMAIN crit
                 THEN SelectSeq(byType, DateOk) ELSE byType, LAMBDA byDate :
                IF "sizeRange" \in DOMAIN crit
                THEN SelectSeq(byDate, SizeOk) ELSE byDate)))

\* an in-place filter: the receiver is cut down to the kept elements
ReceiverAfterFilterInPlace(receiver, kept) == kept
\* Array.prototype.filter returns a new array and leaves its receiver alone
ReceiverAfterFilter(receiver, kept) == receiver

\* the caller's array after the filters: `results` is the caller's array
\* itself until the first filter replaces it by a new one
FilesAfterFilters(crit0, fs0) ==
    Bind2(crit0, fs0, LAMBDA crit, fs :
        LET typeOn == "fileTypes" \in DOMAIN crit /\ Len(crit.fileTypes) > 0
            dateOn == "dateRange" \in DOMAIN crit
            sizeOn == "sizeRange" \in DOMAIN crit
            only(c) == [f \in {c} \cap DOMAIN crit |-> crit[f]]
        IN  IF typeOn THEN ReceiverAfterFilter(fs, AdvancedFilter(only("fileTypes"), fs))
            ELSE IF dateOn THEN ReceiverAfterFilter(fs, AdvancedFilter(only("dateRange"), fs))
            ELSE IF sizeOn THEN ReceiverAfterFilter(fs, AdvancedFilter(only("sizeRange"), fs))
            ELSE fs)

\* file.extractedContent.text.substring raises a TypeError when the document
\* has neither a summary nor a text
FilterOnlyRaises(file) ==
    /\ ~Truthy(file.extractedContent, "summary")
    /\ "text" \notin DOMAIN file.extractedContent

\* the result that stands for a document matched by the filters alone
FilterOnlyResult(file0) ==
    Bind2(file0, file0.extractedContent, LAMBDA file, content :
        Result(file.id, file.name,
               IF Truthy(content, "summary") THEN content.summary
               ELSE substring(content.text, 0, excerptLength),
               RInt(1), "text",
               IF Truthy(content, "summary") THEN content.summary ELSE sNoSummary))

NoOptions == <<>>

AdvancedStages(crit0, fs0, host) ==
    Bind2(crit0, AdvancedFilter(crit0, fs0), LAMBDA crit, kept :
        IF Truthy(crit, "query")
        THEN [SearchStages(crit.query, kept, Opt(crit, "searchOptions", NoOptions),
                           host)
                EXCEPT !.files = FilesAfterFilters(crit, fs0)]
        ELSE IF \E i \in DOMAIN kept : FilterOnlyRaises(kept[i])
        THEN [scans |-> <<>>, candidates |-> <<>>, filtered |-> <<>>,
              sorted |-> <<>>, results |-> <<>>, collation |-> "unused",
              files |-> FilesAfterFilters(crit, fs0), threw |-> TRUE]
        ELSE Bind([i \in DOMAIN kept |-> FilterOnlyResult(kept[i])], LAMBDA made :
                [scans |-> <<>>, candidates |-> made, filtered |-> made,
                 sorted |-> made, results |-> made, collation |-> "unused",
                 files |-> FilesAfterFilters(crit, fs0), threw |-> FALSE]))

(***************************************************************************)
(* getFacets                                                               *)
(***************************************************************************)
NoEntries == <<>>
\* a counter that is set to 1 whatever it held
IncrementOverwrite(m, k) ==
    IF k \in DOMAIN m THEN [m EXCEPT ![k] = 1] ELSE m @@ (k :> 1)
\* map.set(k, (map.get(k) || 0) + 1)
Increment(m, k) ==
    IF k \in DOMAIN m THEN [m EXCEPT ![k] = @ + 1] ELSE m @@ (k :> 1)

RECURSIVE IncrementAll(_, _, _)
IncrementAll(m, ks, i) ==
    IF i > Len(ks) THEN m ELSE IncrementAll(Increment(m, ks[i]), ks, i + 1)

\* the body of files.forEach for one file
FacetsWith(acc, file) ==
    LET content  == file.extractedContent
        metadata == content.metadata
        language == IF "language" \in DOMAIN metadata /\ metadata.language # ""
                    THEN metadata.language ELSE "unknown"
    IN  [fileTypes |-> Increment(acc.fileTypes, file.type),
         languages |-> Increment(acc.languages, language),
         authors   |-> IF Truthy(metadata, "author")
                       THEN Increment(acc.authors, metadata.author)
                       ELSE acc.authors,
         topics    |-> IF "topics" \in DOMAIN content
                       THEN IncrementAll(acc.topics, content.topics, 1)
                       ELSE acc.topics]

RECURSIVE FacetsFrom(_, _, _)
FacetsFrom(acc, fs, i) ==
    IF i > Len(fs) THEN acc ELSE FacetsFrom(FacetsWith(acc, fs[i]), fs, i + 1)

NoFacets ==
    [fileTypes |-> NoEntries, languages |-> NoEntries, topics |-> NoEntries,
     authors |-> NoEntries]
\* a loop that starts at the second file
getFacetsFromSecond(fs) == FacetsFrom(NoFacets, fs, 2)
getFacets(fs) == FacetsFrom(NoFacets, fs, 1)

(***************************************************************************)
(* The inputs: documents, queries, options and criteria.                   *)
(***************************************************************************)
sRevenueText == <<"T","h","e"," ","q","u","a","r","t","e","r","l","y"," ","r","e","v","e","n","u","e"," ","r","e","p","o","r","t"," ","s","h","o","w","s"," ","r","e","v","e","n","u","e"," ","g","r","o","w","t","h"," ","i","n"," ","Q","1"," ","2","0","2","3",".">>
sCookingText == <<"C","o","o","k","i","n","g"," ","r","e","c","i","p","e","s"," ","f","o","r"," ","d","i","n","n","e","r">>
sFinancialSummary == <<"A","n","n","u","a","l"," ","f","i","n","a","n","c","i","a","l"," ","r","e","s","u","l","t","s"," ","a","n","d"," ","o","u","t","l","o","o","k">>
sRevenueNote == <<"R","e","v","e","n","u","e"," ","u","p",".">>
sFillerWord == <<"l","o","r","e","m"," ">>
sBobSummary == <<"B","o","b"," ","r","e","p","o","r","t","s"," ","r","e","v","e","n","u","e">>
sOcrText == <<"R","e","v","e","n","u","e"," ","c","h","a","r","t"," ","b","y"," ","B","o","b">>
sF1 == <<"f","1">>
sF2 == <<"f","2">>
sF3 == <<"f","3">>
sF4 == <<"f","4">>
sI1 == <<"i","1">>
sI2 == <<"i","2">>
sT1 == <<"t","1">>
sT2 == <<"t","2">>
sNameReport == <<"r","e","p","o","r","t",".","p","d","f">>
sNameBudgetUpper == <<"B","u","d","g","e","t">>
sNameBudgetLower == <<"b","u","d","g","e","t">>
sNameZeta == <<"Z","e","t","a">>
sTitleRevenue == <<"R","e","v","e","n","u","e"," ","R","e","p","o","r","t">>
sBob == <<"B","o","b">>
sBobLower == <<"b","o","b">>
sBobby == <<"B","o","b","b","y">>
sAlice == <<"A","l","i","c","e">>
sAuthorAlice == <<"A","l","i","c","e"," ","B","o","b","s","o","n">>
sName == <<"N","a","m","e">>
sAmount == <<"A","m","o","u","n","t">>
s100 == <<"1","0","0">>
s200 == <<"2","0","0">>
sRevenue == <<"r","e","v","e","n","u","e">>
sFinance == <<"F","i","n","a","n","c","e">>
sBobRecipes == <<"b","o","b"," ","r","e","c","i","p","e","s">>
sFinancialResults == <<"f","i","n","a","n","c","i","a","l"," ","r","e","s","u","l","t","s">>
sRepeatedOcr == <<"R","e","v","e","n","u","e"," ","r","e","v","e","n","u","e"," ","R","E","V","E","N","U","E"," ","r","e","v","e","n","u","e">>
sGrewSummary == <<"R","e","v","e","n","u","e"," ","a","n","d"," ","c","o","s","t","s"," ","g","r","e","w"," ","a","g","a","i","n">>
sShortQuery == <<"r","e">>
sTwoTerms == <<"R","e","v","e","n","u","e"," ","g","r","o","w","t","h">>

\* the number of filler words between the two ends of the long text
FillerWords == 26
sFiller == [i \in 1..(FillerWords * Len(sFillerWord)) |->
               sFillerWord[((i - 1) % Len(sFillerWord)) + 1]]
sLongText == sRevenueNote \o sFiller \o sBobSummary

NameAmountTable ==
    [id |-> sT1, headers |-> <<sName, sAmount>>,
     rows |-> <<<<sAlice, s100>>, <<sBob, s200>>>>]
RaggedTable ==
    [id |-> sT2, headers |-> <<sBob>>, rows |-> <<<<sBobby>>, <<s100, sBob>>>>]

ReportDoc ==
    [id |-> sF1, name |-> sNameReport, type |-> "pdf", size |-> 100, uploadDate |-> 10,
     extractedContent |->
        [text |-> sRevenueText,
         images |-> <<[id |-> sI1, ocrText |-> sOcrText], [id |-> sI2]>>,
         tables |-> <<NameAmountTable>>,
         metadata |-> [title |-> sTitleRevenue, author |-> sBob, language |-> "en"],
         summary |-> sFinancialSummary,
         keywords |-> <<sRevenue, sFinance>>,
         topics |-> <<"finance", "reports">>]]
CookingDoc ==
    [id |-> sF2, name |-> sNameBudgetUpper, type |-> "xlsx", size |-> 200, uploadDate |-> 20,
     extractedContent |->
        [text |-> sCookingText,
         images |-> <<[id |-> sI1, ocrText |-> sRepeatedOcr]>>,
         tables |-> <<>>,
         metadata |-> [author |-> sAuthorAlice],
         keywords |-> <<sBobRecipes>>]]
LongDoc ==
    [id |-> sF3, name |-> sNameBudgetLower, type |-> "txt", size |-> 300, uploadDate |-> 30,
     extractedContent |->
        [text |-> sLongText, images |-> <<>>, tables |-> <<>>,
         metadata |-> [title |-> sBobLower, author |-> sBob, language |-> "en"],
         summary |-> sBobSummary,
         keywords |-> <<sBobby>>,
         topics |-> <<"finance">>]]
TableDoc ==
    [id |-> sF4, name |-> sNameZeta, type |-> "pdf", size |-> 100, uploadDate |-> 30,
     extractedContent |->
        [text |-> <<>>, images |-> <<>>, tables |-> <<RaggedTable>>,
         metadata |-> <<>>,
         summary |-> sGrewSummary,
         keywords |-> <<>>]]

Docs == {ReportDoc, CookingDoc, LongDoc, TableDoc}

\* the collections: up to MaxFiles different documents in any order
MaxFiles == 2
Collections ==
    UNION {{fs \in [1..n -> Docs] : \A i, j \in 1..n : fs[i] = fs[j] => i = j}
           : n \in 0..MaxFiles}

Queries == {<<>>, sRevenue, sBob, sFinancialResults, sShortQuery, sTwoTerms}

MaxResultsOption == 2
OptionsPool ==
    {NoOptions, [sortBy |-> "name"], [sortBy |-> "date"]}
    \cup {[sortBy |-> "relevance", maxResults |-> m] : m \in 0..MaxResultsOption}
    \cup {[threshold |-> Rat(6, 10)], [threshold |-> Rat(9, 10)], [threshold |-> RInt(1)]}
    \cup {[threshold |-> Rat(8, 10), maxResults |-> 2, sortBy |-> "name"]}
    \cup {[includeText |-> FALSE], [includeOCR |-> FALSE, includeMetadata |-> FALSE]}

NoCriteria == <<>>
\* the criteria objects a caller can build around a query and options
CriteriaPool(q, o) ==
    {[query |-> q, searchOptions |-> o],
     [query |-> q, searchOptions |-> o, fileTypes |-> <<"pdf", "txt">>,
      dateRange |-> [start |-> 10, end |-> 20]],
     [query |-> q, fileTypes |-> <<>>, sizeRange |-> [min |-> 200, max |-> 300]],
     [fileTypes |-> <<"xlsx", "txt">>, dateRange |-> [start |-> 20, end |-> 30],
      sizeRange |-> [min |-> 100, max |-> 300]]}

(***************************************************************************)
(* The singleton and the calls of concurrent callers.  A call is a record  *)
(* of its request, its position and what it holds; the object that         *)
(* getInstance hands out has no fields.                                    *)
(***************************************************************************)
NumCallers == 2
Callers == 1..NumCallers
NoInstance == [created |-> FALSE, fields |-> <<>>]
NoRequest == <<>>
IdleCall == [pc |-> "idle", req |-> NoRequest, pending |-> <<>>, result |-> <<>>,
             overtaken |-> FALSE]
NoCalls == [c \in Callers |-> IdleCall]

(***************************************************************************)
(* The state machine: the caller holds a query, a collection and options   *)
(* and calls one entry point of the service.  SearchService has no         *)
(* instance fields, so a call's outcome depends on its arguments alone and *)
(* one call is the whole unit of work.                                     *)
(***************************************************************************)
Init ==
    /\ query \in Queries
    /\ files \in Collections
    /\ options \in OptionsPool
    /\ criteria = NoCriteria
    /\ op = "none"
    /\ scans = <<>>
    /\ candidates = <<>>
    /\ filtered = <<>>
    /\ sorted = <<>>
    /\ results = <<>>
    /\ collation = "unused"
    /\ facets = NoFacets
    /\ threw = FALSE
    /\ instance = NoInstance
    /\ calls = NoCalls
    /\ HelperIdle /\ StoreIdle /\ TimerIdle

\* the comparisons a call with these options can observe: localeCompare is
\* only called when the results are sorted by name
Comparisons(o) ==
    IF Opt(o, "sortBy", "relevance") = "name" THEN HostCollations ELSE {"unused"}

Returned(name, st) ==
    /\ op' = name
    /\ scans' = st.scans
    /\ candidates' = st.candidates
    /\ filtered' = st.filtered
    /\ sorted' = st.sorted
    /\ results' = st.results
    /\ collation' = st.collation
    /\ files' = st.files
    /\ threw' = st.threw
    /\ facets' = facets

Search ==
    /\ op = "none"
    /\ \E host \in Comparisons(options) :
        \E st \in {SearchStages(query, files, options, host)} :
            Returned("search", st)
    /\ criteria' = NoCriteria
    /\ UNCHANGED <<query, options, instance, calls>>
    /\ UNCHANGED <<helperVars, storeVars, timerVars>>

\* the caller passes options.maxResults; the parameter's default applies
\* when it is undefined
SemanticSearch ==
    /\ op = "none"
    /\ \E st \in {SemanticStages(query, files,
                               Opt(options, "maxResults", semanticDefaultMaxResults))} :
           Returned("semanticSearch", st)
    /\ criteria' = NoCriteria
    /\ UNCHANGED <<query, options, instance, calls>>
    /\ UNCHANGED <<helperVars, storeVars, timerVars>>

AdvancedSearch ==
    \E crit \in CriteriaPool(query, options) :
        /\ op = "none"
        /\ \E host \in Comparisons(IF Truthy(crit, "query")
                                    THEN Opt(crit, "searchOptions", NoOptions)
                                    ELSE NoOptions) :
            \E st \in {AdvancedStages(crit, files, host)} :
                Returned("advancedSearch", st)
        /\ criteria' = crit
        /\ UNCHANGED <<query, options, instance, calls>>
        /\ UNCHANGED <<helperVars, storeVars, timerVars>>

GetFacets ==
    /\ op = "none"
    /\ op' = "getFacets"
    /\ facets' = getFacets(files)
    /\ UNCHANGED <<query, files, options, criteria, scans, candidates, filtered,
                   sorted, results, collation, threw, instance, calls>>
    /\ UNCHANGED <<helperVars, storeVars, timerVars>>

Next == Search \/ SemanticSearch \/ AdvancedSearch \/ GetFacets

Spec == Init /\ [][Next]_vars

(***************************************************************************)
(* Documents at the edge of ExtractedContent: optional fields absent or    *)
(* empty, a text without a summary, and the same string in several fields. *)
(***************************************************************************)
sF5 == <<"f","5">>
sF6 == <<"f","6">>
sF7 == <<"f","7">>
sF8 == <<"f","8">>
sNameBare == <<"b","a","r","e">>
sNameBlank == <<"b","l","a","n","k">>
sNameNotes == <<"n","o","t","e","s">>
sNameEcho == <<"e","c","h","o">>

\* no text and no optional field
BareDoc ==
    [id |-> sF5, name |-> sNameBare, type |-> "txt", size |-> 100, uploadDate |-> 20,
     extractedContent |-> [images |-> <<>>, tables |-> <<>>, metadata |-> <<>>]]
\* every field present and empty
BlankDoc ==
    [id |-> sF6, name |-> sNameBlank, type |-> "txt", size |-> 100, uploadDate |-> 20,
     extractedContent |->
        [text |-> <<>>, images |-> <<>>, tables |-> <<>>,
         metadata |-> [title |-> <<>>, author |-> <<>>, language |-> ""],
         summary |-> <<>>, keywords |-> <<>>, topics |-> <<>>]]
\* a text of more than 200 characters and no summary
NotesDoc ==
    [id |-> sF7, name |-> sNameNotes, type |-> "txt", size |-> 300, uploadDate |-> 30,
     extractedContent |->
        [text |-> sLongText, images |-> <<>>, tables |-> <<>>, metadata |-> <<>>]]
\* the summary repeats the text, two images show the same text, and the
\* topic list names one topic twice
EchoDoc ==
    [id |-> sF8, name |-> sNameEcho, type |-> "pdf", size |-> 200, uploadDate |-> 10,
     extractedContent |->
        [text |-> sBobSummary,
         images |-> <<[id |-> sI1, ocrText |-> sOcrText],
                      [id |-> sI2, ocrText |-> sOcrText]>>,
         tables |-> <<>>,
         metadata |-> [author |-> sBob],
         summary |-> sBobSummary,
         topics |-> <<"review", "review">>]]

EdgeDocs == <<ReportDoc, BareDoc, BlankDoc, NotesDoc, EchoDoc>>
\* the collections: up to MaxFiles of these documents, in the order above
EdgeCollections ==
    UNION {{[i \in 1..n |-> EdgeDocs[p[i]]] :
                p \in {q \in [1..n -> DOMAIN EdgeDocs] :
                          \A i, j \in 1..n : i < j => q[i] < q[j]}}
           : n \in 0..MaxFiles}
EdgeQueries == {<<>>, sBob, sRevenue, sTwoTerms}
EdgeOptions ==
    {NoOptions, [sortBy |-> "date"], [threshold |-> Rat(6, 10)],
     [threshold |-> Rat(8, 10)], [threshold |-> Rat(9, 10), maxResults |-> 1],
     [includeText |-> FALSE], [includeOCR |-> FALSE], [includeMetadata |-> FALSE]}

EdgeInit ==
    /\ query \in EdgeQueries
    /\ files \in EdgeCollections
    /\ options \in EdgeOptions
    /\ criteria = NoCriteria
    /\ op = "none"
    /\ scans = <<>>
    /\ candidates = <<>>
    /\ filtered = <<>>
    /\ sorted = <<>>
    /\ results = <<>>
    /\ collation = "unused"
    /\ facets = NoFacets
    /\ threw = FALSE
    /\ instance = NoInstance
    /\ calls = NoCalls
    /\ HelperIdle /\ StoreIdle /\ TimerIdle

EdgeSpec == EdgeInit /\ [][Next]_vars

(***************************************************************************)
(* Concurrent callers of the singleton.  JavaScript runs a call until it   *)
(* awaits: search, semanticSearch and getFacets run to their end in one    *)
(* step, advancedSearch with a query is suspended at `await this.search`   *)
(* and resumed in a later step, with other calls in between.               *)
(***************************************************************************)
Request(name, q, fs, o, crit) ==
    [op |-> name, query |-> q, files |-> fs, options |-> o, criteria |-> crit]
Requests ==
    {Request("search", sBob, <<ReportDoc, CookingDoc>>, [sortBy |-> "name"], NoCriteria),
     Request("search", sRevenue, <<CookingDoc>>, NoOptions, NoCriteria),
     Request("semanticSearch", sFinancialResults, <<ReportDoc>>, NoOptions, NoCriteria),
     Request("advancedSearch", <<>>, <<ReportDoc, CookingDoc>>, NoOptions,
             [query |-> sBob, fileTypes |-> <<"pdf">>]),
     Request("advancedSearch", <<>>, <<ReportDoc, CookingDoc>>, NoOptions,
             [fileTypes |-> <<"xlsx">>]),
     Request("getFacets", <<>>, <<ReportDoc, CookingDoc>>, NoOptions, NoCriteria)}

\* the object with a field that remembers the last request
InstanceAfterCallCaching(self, req) == [self EXCEPT !.fields = [lastRequest |-> req]]
\* no method assigns a field of `this`
InstanceAfterCall(self, req) == self

getInstance(self) ==
    IF ~self.created THEN [created |-> TRUE, fields |-> <<>>] ELSE self

\* a call up to its first await or its end: whether it is suspended there, and
\* the value it holds
SynchronousPart(req, host) ==
    CASE req.op = "search" ->
            [suspends |-> FALSE,
             value |-> SearchStages(req.query, req.files, req.options, host).results]
      [] req.op = "semanticSearch" ->
            [suspends |-> FALSE,
             value |-> SemanticStages(req.query, req.files,
                                      Opt(req.options, "maxResults",
                                          semanticDefaultMaxResults)).results]
      [] req.op = "advancedSearch" ->
            Bind(AdvancedFilter(req.criteria, req.files), LAMBDA kept :
                IF Truthy(req.criteria, "query")
                THEN [suspends |-> TRUE,
                      value |-> SearchStages(req.criteria.query, kept,
                                             Opt(req.criteria, "searchOptions", NoOptions),
                                             host).results]
                ELSE [suspends |-> FALSE,
                      value |-> [i \in DOMAIN kept |-> FilterOnlyResult(kept[i])]])
      [] req.op = "getFacets" ->
            [suspends |-> FALSE, value |-> getFacets(req.files)]

\* the service before any call, with no arguments at hand
ServiceIdle ==
    /\ query = <<>>
    /\ files = <<>>
    /\ options = NoOptions
    /\ criteria = NoCriteria
    /\ op = "none"
    /\ scans = <<>>
    /\ candidates = <<>>
    /\ filtered = <<>>
    /\ sorted = <<>>
    /\ results = <<>>
    /\ collation = "unused"
    /\ facets = NoFacets
    /\ threw = FALSE
    /\ instance = NoInstance
    /\ calls = NoCalls

ConcurrentInit ==
    /\ query = <<>>
    /\ files = <<>>
    /\ options = NoOptions
    /\ criteria = NoCriteria
    /\ op = "none"
    /\ scans = <<>>
    /\ candidates = <<>>
    /\ filtered = <<>>
    /\ sorted = <<>>
    /\ results = <<>>
    /\ collation \in HostCollations
    /\ facets = NoFacets
    /\ threw = FALSE
    /\ instance = NoInstance
    /\ calls = NoCalls
    /\ HelperIdle /\ StoreIdle /\ TimerIdle

Invoke(c) ==
    /\ calls[c].pc = "idle"
    /\ \E req \in Requests :
        \E part \in {SynchronousPart(req, collation)} :
            /\ calls' = [d \in Callers |->
                            IF d = c
                            THEN [pc |-> IF part.suspends THEN "awaiting" ELSE "done",
                                  req |-> req,
                                  pending |-> IF part.suspends THEN part.value ELSE <<>>,
                                  result |-> IF part.suspends THEN <<>> ELSE part.value,
                                  overtaken |-> FALSE]
                            ELSE IF calls[d].pc = "awaiting"
                            THEN [calls[d] EXCEPT !.overtaken = TRUE]
                            ELSE calls[d]]
            /\ instance' = InstanceAfterCall(getInstance(instance), req)
    /\ UNCHANGED <<query, files, options, criteria, op, scans, candidates, filtered,
                   sorted, results, collation, facets, threw>>
    /\ UNCHANGED <<helperVars, storeVars, timerVars>>

\* return searchResults after the await
Resume(c) ==
    /\ calls[c].pc = "awaiting"
    /\ calls' = [calls EXCEPT ![c].pc = "done", ![c].result = calls[c].pending]
    /\ UNCHANGED <<query, files, options, criteria, op, scans, candidates, filtered,
                   sorted, results, collation, facets, threw, instance>>
    /\ UNCHANGED <<helperVars, storeVars, timerVars>>

ConcurrentNext == \E c \in Callers : Invoke(c) \/ Resume(c)

ConcurrentSpec == ConcurrentInit /\ [][ConcurrentNext]_vars

(***************************************************************************)
(* The helper methods called on their own: the caller holds two strings a  *)
(* and b and calls one helper with them.                                   *)
(***************************************************************************)
sGrowthRevenue == <<"g","r","o","w","t","h",","," ","R","E","V","E","N","U","E","!">>
sSnake == <<"f","o","o","_","b","a","r"," ","x","1"," ","_","a","b">>
sSeparators == <<" ",".",",",";","!","?"," ","-">>
sMixed == <<"Q","1","-","2","0","2","3",":"," ","R","e","v","e","n","u","e","\t","U","P"," ","(","a","g","a","i","n",")">>
\* the number of dotted capitals in front of the word of the dotted text
DottedCapitals == 76
sDottedText == [i \in 1..DottedCapitals |-> cDottedI] \o sRevenue

\* what a user types, and what a document holds
HelperQueries ==
    {<<>>, sRevenue, sTwoTerms, sGrowthRevenue, sShortQuery, sSnake, sSeparators,
     sMixed}
HelperTexts == {sRevenueText, sLongText, sDottedText}
HelperStrings == HelperQueries \cup HelperTexts
\* the strings that are a pattern without metacharacters
HelperTerms ==
    {t \in HelperStrings : \A i \in DOMAIN t : IsWordChar(t[i]) \/ t[i] = " "}
Positions == {0, 1, 75, 76, 100}
MatchLengths == {0, 3, 7}

HelperCall(name, a, b, position, matchLength, context, value) ==
    [name |-> name, a |-> a, b |-> b, position |-> position,
     matchLength |-> matchLength, context |-> context, value |-> value]

HelperInit ==
    /\ helper \in {HelperCall("none", a, b, 0, 0, <<>>, <<>>) : a, b \in HelperStrings}
    /\ loop = NoLoop
    /\ ServiceIdle /\ StoreIdle /\ TimerIdle

HelperReturned(name, position, matchLength, context, value) ==
    /\ helper' = HelperCall(name, helper.a, helper.b, position, matchLength,
                            context, value)
    /\ UNCHANGED <<loop, serviceVars, storeVars, timerVars>>

PreprocessQuery ==
    /\ helper.name = "none"
    /\ HelperReturned("preprocessQuery", 0, 0, <<>>, preprocessQuery(helper.a))

ExtractContext ==
    /\ helper.name = "none"
    /\ \E position \in Positions, matchLength \in MatchLengths :
          HelperReturned("extractContext", position, matchLength, <<>>,
                         extractContext(helper.b, position, matchLength))

CalculateRelevanceScore ==
    /\ helper.name = "none"
    /\ helper.a \in HelperTerms
    /\ \E context \in {<<>>, helper.b, extractContext(helper.b, 0, Len(helper.a))} :
          HelperReturned("calculateRelevanceScore", 0, 0, context,
                         calculateRelevanceScore(helper.a, helper.b, context))

CalculateSemanticSimilarity ==
    /\ helper.name = "none"
    /\ HelperReturned("calculateSemanticSimilarity", 0, 0, <<>>,
                      calculateSemanticSimilarity(helper.a, helper.b))

SearchInText ==
    /\ helper.name = "none"
    /\ helper.a \in HelperQueries
    /\ HelperReturned("searchInText", 0, 0, <<>>,
                      searchInText(helper.a, helper.b, sF1, sNameReport, "text"))

HelperNext ==
    \/ PreprocessQuery
    \/ ExtractContext
    \/ CalculateRelevanceScore
    \/ CalculateSemanticSimilarity
    \/ SearchInText

HelperSpec == HelperInit /\ [][HelperNext]_vars

(***************************************************************************)
(* The file store: fileReducer and the actions dispatched to it.           *)
(***************************************************************************)
fileReducer(st, action) ==
    CASE action.type = "ADD_FILE" ->
            [st EXCEPT !.files = Append(@, action.payload),
                       !.processingStats.totalFiles = @ + 1]
      [] action.type = "UPDATE_FILE" ->
            [st EXCEPT !.files =
                [i \in DOMAIN @ |->
                    IF @[i].id = action.payload.id THEN action.payload ELSE @[i]]]
      [] action.type = "REMOVE_FILE" ->
            LET OtherFile(file) == file.id # action.payload
                OtherId(id) == id # action.payload
            IN  [st EXCEPT !.files = SelectSeq(@, OtherFile),
                           !.selectedFiles = SelectSeq(@, OtherId),
                           !.processingStats.totalFiles = Max(0, @ - 1)]
      [] action.type = "SELECT_FILE" ->
            [st EXCEPT !.selectedFiles = Append(@, action.payload)]
      [] action.type = "DESELECT_FILE" ->
            LET OtherId(id) == id # action.payload
            IN  [st EXCEPT !.selectedFiles = SelectSeq(@, OtherId)]
      [] action.type = "CLEAR_SELECTION" ->
            [st EXCEPT !.selectedFiles = <<>>]
      [] action.type = "SET_SEARCH_RESULTS" ->
            [st EXCEPT !.searchResults = action.payload]
      [] action.type = "SET_PROCESSING" ->
            [st EXCEPT !.isProcessing = action.payload]
      [] action.type = "SET_ERROR" ->
            [st EXCEPT !.error = action.payload]
      [] action.type = "UPDATE_STATS" ->
            [st EXCEPT !.processingStats =
                [f \in DOMAIN @ |->
                    IF f \in DOMAIN action.payload THEN action.payload[f] ELSE @[f]]]
      [] action.type = "BULK_ADD_FILES" ->
            [st EXCEPT !.files = @ \o action.payload,
                       !.processingStats.totalFiles = @ + Len(action.payload)]
      [] OTHER -> st

\* the files a screen can hand to the store: two extractions of one file
\* and one of another
StoreFiles ==
    {[id |-> sF1, name |-> sNameReport, processingStatus |-> "processing"],
     [id |-> sF1, name |-> sNameReport, processingStatus |-> "completed"],
     [id |-> sF2, name |-> sNameBudgetUpper, processingStatus |-> "completed"]}
\* the ids a screen can name: of the files above and of a file never added
StoreIds == {sF1, sF2, sF3}
\* the store holds at most MaxStoreFiles files, counts at most as many, and
\* holds at most MaxSelected selections; a bulk add brings at most MaxBulk
\* files
MaxStoreFiles == 3
MaxSelected == 2
MaxBulk == 2
Bulks == UNION {[1..n -> StoreFiles] : n \in 0..MaxBulk}

StoreInit ==
    /\ state = initialState
    /\ ServiceIdle /\ HelperIdle /\ TimerIdle

\* dispatch(action): the store's state becomes fileReducer(state, action)
AddFile ==
    /\ Len(state.files) < MaxStoreFiles
    /\ state.processingStats.totalFiles < MaxStoreFiles
    /\ \E file \in StoreFiles :
          state' = fileReducer(state, [type |-> "ADD_FILE", payload |-> file])
    /\ UNCHANGED <<serviceVars, helperVars, timerVars>>
BulkAddFiles ==
    /\ \E bulk \in Bulks :
          /\ Len(state.files) + Len(bulk) <= MaxStoreFiles
          /\ state.processingStats.totalFiles + Len(bulk) <= MaxStoreFiles
          /\ state' = fileReducer(state, [type |-> "BULK_ADD_FILES", payload |-> bulk])
    /\ UNCHANGED <<serviceVars, helperVars, timerVars>>
UpdateFile ==
    /\ \E file \in StoreFiles :
          state' = fileReducer(state, [type |-> "UPDATE_FILE", payload |-> file])
    /\ UNCHANGED <<serviceVars, helperVars, timerVars>>
RemoveFile ==
    /\ \E id \in StoreIds :
          state' = fileReducer(state, [type |-> "REMOVE_FILE", payload |-> id])
    /\ UNCHANGED <<serviceVars, helperVars, timerVars>>
SelectFile ==
    /\ Len(state.selectedFiles) < MaxSelected
    /\ \E id \in StoreIds :
          state' = fileReducer(state, [type |-> "SELECT_FILE", payload |-> id])
    /\ UNCHANGED <<serviceVars, helperVars, timerVars>>
DeselectFile ==
    /\ \E id \in StoreIds :
          state' = fileReducer(state, [type |-> "DESELECT_FILE", payload |-> id])
    /\ UNCHANGED <<serviceVars, helperVars, timerVars>>
ClearSelection ==
    /\ state' = fileReducer(state, [type |-> "CLEAR_SELECTION"])
    /\ UNCHANGED <<serviceVars, helperVars, timerVars>>

StoreNext ==
    \/ AddFile
    \/ BulkAddFiles
    \/ UpdateFile
    \/ RemoveFile
    \/ SelectFile
    \/ DeselectFile
    \/ ClearSelection

StoreSpec == StoreInit /\ [][StoreNext]_vars

(***************************************************************************)
(* debounce(func, wait): d is the function it returns.  A timer of the     *)
(* host runs its callback once, no earlier than `wait` after it was set    *)
(* and possibly later; a call of d and a due callback run in either order. *)
(* Time is counted in units of a fraction of the wait.                     *)
(***************************************************************************)
\* the wait in units of time, the last instant and the number of calls
wait == 2
MaxTime == 6
MaxCalls == 3
\* the arguments of d: the query of the search screen
DebounceArgs == {sBob, sRevenue}

CallsIn(l) == {i \in DOMAIN l : l[i].kind = "call"}

\* a clearTimeout that clears nothing
clearTimeoutNothing(ts, id) == ts
\* clearTimeout(id): no timer is left with that id; undefined and the id of
\* a timer that has run clear nothing
clearTimeout(ts, id) == {t \in ts : t.id # id}
\* setTimeout(() => func(...args), wait) at time `at`, returning the id
setTimeout(ts, id, args, at) == ts \cup {[id |-> id, due |-> at + wait, args |-> args]}

DebounceInit ==
    /\ now = 0
    /\ timeout = undefined
    /\ timers = {}
    /\ log = <<>>
    /\ ServiceIdle /\ HelperIdle /\ StoreIdle

\* d(...args)
Debounced ==
    /\ Cardinality(CallsIn(log)) < MaxCalls
    /\ now + wait <= MaxTime
    /\ \E args \in DebounceArgs :
        \E id \in {Cardinality(CallsIn(log)) + 1} :
          /\ timers' = setTimeout(clearTimeout(timers, timeout), id, args, now)
          /\ timeout' = id
          /\ log' = Append(log, [kind |-> "call", at |-> now, args |-> args])
    /\ UNCHANGED <<now, serviceVars, helperVars, storeVars>>

\* the host runs the callback of a due timer: func(...args)
TimerFires ==
    /\ \E t \in timers :
          /\ t.due <= now
          /\ timers' = timers \ {t}
          /\ log' = Append(log, [kind |-> "run", at |-> now, args |-> t.args])
    /\ UNCHANGED <<now, timeout, serviceVars, helperVars, storeVars>>

TimePasses ==
    /\ now < MaxTime
    /\ now' = now + 1
    /\ UNCHANGED <<timeout, timers, log, serviceVars, helperVars, storeVars>>

DebounceNext == Debounced \/ TimerFires \/ TimePasses

\* time passes, and the host runs the callback of a timer that stays due
DebounceSpec ==
    DebounceInit /\ [][DebounceNext]_vars /\ WF_vars(TimePasses) /\ WF_vars(TimerFires)

(***************************************************************************)
(* searchInText step by step: one step per entry, per turn of the for loop *)
(* over the terms, per turn of the while loop over the matches, and for    *)
(* the return.  The method runs on one thread and nothing suspends it, so  *)
(* a step that can be taken is taken.                                      *)
(***************************************************************************)
\* a cursor that stays on the match
AdvanceCursorNowhere(found, termLower) == found
\* index += termLower.length, after index was set to the offset of the match
AdvanceCursor(found, termLower) == found + Len(termLower)

ScanInit ==
    /\ helper \in {HelperCall("none", a, b, 0, 0, <<>>, <<>>) :
                      a \in HelperQueries, b \in HelperStrings}
    /\ loop = NoLoop
    /\ ServiceIdle /\ StoreIdle /\ TimerIdle

\* const queryTerms = this.preprocessQuery(query); const textLower = ...
Enter ==
    /\ loop.pc = "idle"
    /\ loop' = [pc |-> "for", queryTerms |-> preprocessQuery(helper.a),
                textLower |-> toLowerCase(helper.b), k |-> 1, index |-> 0,
                results |-> <<>>, pushed |-> <<>>]
    /\ helper' = [helper EXCEPT !.name = "searchInText"]
    /\ UNCHANGED <<serviceVars, storeVars, timerVars>>

\* for (const term of queryTerms) { ... let index = 0;
NextTerm ==
    /\ loop.pc = "for"
    /\ loop.k <= Len(loop.queryTerms)
    /\ loop' = [loop EXCEPT !.pc = "while", !.index = 0, !.pushed = Append(@, 0)]
    /\ UNCHANGED <<helper, serviceVars, storeVars, timerVars>>

\* a turn of the while loop whose condition holds
Match ==
    /\ loop.pc = "while"
    /\ \E termLower \in {toLowerCase(loop.queryTerms[loop.k])} :
       \E found \in {indexOf(loop.textLower, termLower, loop.index)} :
          /\ found # -1
          /\ \E context \in {extractContext(helper.b, found, Len(termLower))} :
                loop' = [loop EXCEPT
                            !.results =
                                Append(@, Result(sF1, sNameReport, context,
                                                 calculateRelevanceScore(
                                                     loop.queryTerms[loop.k],
                                                     helper.b, context),
                                                 "text", context)),
                            !.pushed[loop.k] = @ + 1,
                            !.index = AdvanceCursor(found, termLower)]
    /\ UNCHANGED <<helper, serviceVars, storeVars, timerVars>>

\* the while condition fails: on to the next term
NoMatch ==
    /\ loop.pc = "while"
    /\ indexOf(loop.textLower, toLowerCase(loop.queryTerms[loop.k]), loop.index) = -1
    /\ loop' = [loop EXCEPT !.pc = "for", !.k = @ + 1]
    /\ UNCHANGED <<helper, serviceVars, storeVars, timerVars>>

\* return this.deduplicateResults(results)
Return ==
    /\ loop.pc = "for"
    /\ loop.k > Len(loop.queryTerms)
    /\ loop' = [loop EXCEPT !.pc = "returned"]
    /\ helper' = [helper EXCEPT !.value = deduplicateResults(loop.results)]
    /\ UNCHANGED <<serviceVars, storeVars, timerVars>>

ScanNext == Enter \/ NextTerm \/ Match \/ NoMatch \/ Return

ScanSpec == ScanInit /\ [][ScanNext]_vars /\ WF_vars(ScanNext)


----------------------------------------------------------------------------
\* Properties of the search operations

MaxResultsOf ==
    IF op = "semanticSearch"
    THEN Opt(options, "maxResults", 20)
    ELSE Opt(options, "maxResults", 50)
ThresholdOf == Opt(options, "threshold", Rat(1, 10))
SortByOf == Opt(options, "sortBy", "relevance")
ScoresNonIncreasing(rs) ==
    \A i, j \in DOMAIN rs :
        i < j => RGe(rs[i].relevanceScore, rs[j].relevanceScore)
WithScore(rs, s) ==
    LET Has(r) == r.relevanceScore = s IN SelectSeq(rs, Has)
\* the number of positions of text at which term starts
Occurrences(text, term) ==
    Cardinality({p \in 0..(Len(text) - 1) :
                    substring(text, p, p + Len(term)) = term})

\* C1: search with the empty query returns no result, whatever the documents
\* and options are.
C1_EmptyQueryReturnsNothing ==
    (op = "search" /\ query = <<>>) => results = <<>>

\* C2: for a query of one term, the text matcher yields one candidate per
\* occurrence of the term in the document's text (case-insensitively), so a
\* text holding the term twice yields two candidates.
C2_OneCandidatePerOccurrence ==
    (op = "search" /\ Len(preprocessQuery(query)) = 1) =>
        \A i \in DOMAIN scans :
            scans[i].matcher = "text" =>
                Len(scans[i].out)
                    = Occurrences(toLowerCase(scans[i].input), preprocessQuery(query)[1])

\* C3: every score that search, semanticSearch or advancedSearch produces,
\* before and after filtering, is a number in the closed interval [0, 1].
C3_ScoresWithinUnitInterval ==
    op \in {"search", "semanticSearch", "advancedSearch"} =>
        \A r \in Range(candidates) \cup Range(results) :
            /\ ~IsNaN(r.relevanceScore)
            /\ RLe(RInt(0), r.relevanceScore)
            /\ RLe(r.relevanceScore, RInt(1))
\* a text occurrence whose unclamped score is above 1 is returned with score 1
C3_ClampedScoreReturned ==
    /\ op = "search"
    /\ \E i \in DOMAIN results :
        /\ results[i].matchType = "ocr"
        /\ results[i].relevanceScore = RInt(1)
        /\ RGt(RawRelevanceScore(preprocessQuery(query)[1], results[i].content,
                                 results[i].context), RInt(1))

\* C4: search and semanticSearch return at most maxResults results (default
\* 50, respectively 20), and the returned list is the leading part of the
\* sorted list.
C4_ResultsArePrefixWithinMaxResults ==
    op \in {"search", "semanticSearch"} =>
        /\ Len(results) <= MaxResultsOf
        /\ Len(results) = Min(MaxResultsOf, Len(sorted))
        /\ \A i \in DOMAIN results : results[i] = sorted[i]
\* more results were sorted than maxResults allows, and the list was cut
C4_TruncationHappened ==
    /\ op = "search"
    /\ query # <<>>
    /\ "maxResults" \in DOMAIN options
    /\ MaxResultsOf >= 1
    /\ Len(sorted) > MaxResultsOf
    /\ Len(results) = MaxResultsOf

\* C5: search returns no result whose score is below the threshold (default
\* 0.1), and a candidate whose score equals the threshold is kept.
C5_ThresholdIsInclusiveLowerBound ==
    op = "search" =>
        /\ \A r \in Range(results) \cup Range(filtered) :
                RGe(r.relevanceScore, ThresholdOf)
        /\ \A i \in DOMAIN candidates :
                RGe(candidates[i].relevanceScore, ThresholdOf)
                    => candidates[i] \in Range(filtered)
        /\ Len(filtered)
             = Cardinality({i \in DOMAIN candidates :
                                ~RLt(candidates[i].relevanceScore, ThresholdOf)})
\* a candidate that scores exactly the given threshold is returned, while
\* another candidate is dropped
C5_ScoreEqualToThresholdKept ==
    /\ op = "search"
    /\ query # <<>>
    /\ "threshold" \in DOMAIN options
    /\ \E i \in DOMAIN results : results[i].relevanceScore = ThresholdOf
    /\ Len(filtered) < Len(candidates)

\* C6: with sortBy = relevance (the default) the results are in non-increasing
\* score order, and results of equal score keep their discovery order.
C6_RelevanceOrderIsStable ==
    (op = "search" /\ SortByOf = "relevance") =>
        /\ ScoresNonIncreasing(sorted)
        /\ ScoresNonIncreasing(results)
        /\ \A r \in Range(filtered) :
              /\ WithScore(sorted, r.relevanceScore)
                    = WithScore(filtered, r.relevanceScore)
              /\ WithScore(sorted, r.relevanceScore)
                    = WithScore(candidates, r.relevanceScore)
\* the sort moved something, and two different results tie
C6_TieAfterReordering ==
    /\ op = "search"
    /\ query # <<>>
    /\ SortByOf = "relevance"
    /\ sorted # filtered
    /\ \E i, j \in DOMAIN results :
        /\ i < j
        /\ results[i].relevanceScore = results[j].relevanceScore
        /\ results[i] # results[j]

\* C7 (as stated): with sortBy = name the results are in non-decreasing order
\* of file name, comparing the names by their characters' codes.
C7_NamesInCodeUnitOrder ==
    (op = "search" /\ SortByOf = "name") =>
        \A i, j \in DOMAIN results :
            i < j => CodeUnitCompare(results[i].fileName, results[j].fileName) <= 0
\* C7 (amended): with sortBy = name the results are in non-decreasing order of
\* file name under the comparison that String.prototype.localeCompare applies
\* on the host.
C7_NamesInLocaleOrder ==
    (op = "search" /\ SortByOf = "name") =>
        \A i, j \in DOMAIN results :
            i < j => localeCompare(results[i].fileName, results[j].fileName,
                                   collation) <= 0
\* the sort moved something on a host with a collator, and results of two
\* files whose names differ only in case were returned
C7_CaseVariantsSorted ==
    /\ op = "search"
    /\ query # <<>>
    /\ SortByOf = "name"
    /\ collation = "lowerFirst"
    /\ sorted # filtered
    /\ \E i, j \in DOMAIN results :
        /\ results[i].fileName # results[j].fileName
        /\ toLowerCase(results[i].fileName) = toLowerCase(results[j].fileName)

HeaderHits(table, q) ==
    {h \in DOMAIN table.headers : includes(toLowerCase(table.headers[h]), q)}
CellHits(table, q) ==
    UNION {{<<r, c>> : c \in {k \in DOMAIN table.rows[r] :
                                  includes(toLowerCase(table.rows[r][k]), q)}}
           : r \in DOMAIN table.rows}
sBobCellContext ==
    <<"T", "a", "b", "l", "e", " ", "c", "e", "l", "l", " ", "(", "R", "o", "w",
      " ", "2", ",", " ", "C", "o", "l", " ", "1", ")", ":", " ", "B", "o", "b">>

\* C8: the table matcher yields one candidate per header and per cell that
\* contains the lower-cased query; a cell candidate has score 0.6, type text
\* and the context "Table cell (Row r, Col c): <cell>" with 1-based r and c.
\* In the table with headers Name, Amount and rows (Alice, 100), (Bob, 200)
\* the query Bob yields exactly the candidate of row 2, column 1.
C8_TableCandidates ==
    (op = "search" /\ query # <<>>) =>
        \A i \in DOMAIN scans :
            scans[i].matcher = "table" =>
                LET table == scans[i].input
                    out   == scans[i].out
                    q     == toLowerCase(query)
                IN  /\ Len(out) = Cardinality(HeaderHits(table, q))
                                    + Cardinality(CellHits(table, q))
                    /\ \A rc \in CellHits(table, q) :
                        LET cell == table.rows[rc[1]][rc[2]]
                        IN  Cardinality({k \in DOMAIN out :
                                /\ out[k].content = cell
                                /\ out[k].relevanceScore = Rat(6, 10)
                                /\ out[k].matchType = "text"
                                /\ out[k].fileId = scans[i].fileId
                                /\ out[k].context
                                     = sCellPrefix \o NumStr(rc[1]) \o sCellCol
                                       \o NumStr(rc[2]) \o sCellSuffix \o cell}) = 1
                    /\ (table = NameAmountTable /\ query = sBob) =>
                            /\ Len(out) = 1
                            /\ out[1].context = sBobCellContext
                            /\ out[1].relevanceScore = Rat(6, 10)
                            /\ out[1].matchType = "text"
\* the query Bob was run over the Name/Amount table and its candidate returned
C8_BobCellReturned ==
    /\ op = "search"
    /\ query = sBob
    /\ \E i \in DOMAIN scans :
        /\ scans[i].matcher = "table"
        /\ scans[i].input = NameAmountTable
        /\ Len(scans[i].out) = 1
    /\ \E i \in DOMAIN results : results[i].context = sBobCellContext

\* C9: a title match scores 0.9 and an author match 0.8, both of type
\* metadata and at most one per field; a table header match scores 0.7, a cell
\* match 0.6 and a keyword match 0.8, all of type text.
C9_FixedScoresPerMatcher ==
    op = "search" =>
        \A i \in DOMAIN scans :
            LET out == scans[i].out IN
            /\ scans[i].matcher = "metadata" =>
                /\ \A k \in DOMAIN out :
                    /\ out[k].matchType = "metadata"
                    /\ \/ /\ out[k].relevanceScore = Rat(9, 10)
                          /\ out[k].context = sTitlePrefix \o out[k].content
                          /\ out[k].content = scans[i].input.title
                       \/ /\ out[k].relevanceScore = Rat(8, 10)
                          /\ out[k].context = sAuthorPrefix \o out[k].content
                          /\ out[k].content = scans[i].input.author
                /\ Cardinality({k \in DOMAIN out : out[k].relevanceScore = Rat(9, 10)}) <= 1
                /\ Cardinality({k \in DOMAIN out : out[k].relevanceScore = Rat(8, 10)}) <= 1
            /\ scans[i].matcher = "table" =>
                \A k \in DOMAIN out :
                    /\ out[k].matchType = "text"
                    /\ \/ /\ out[k].relevanceScore = Rat(7, 10)
                          /\ out[k].context = sHeaderPrefix \o out[k].content
                       \/ /\ out[k].relevanceScore = Rat(6, 10)
                          /\ SubSeq(out[k].context, 1, Len(sCellPrefix)) = sCellPrefix
            /\ scans[i].matcher = "keywords" =>
                \A k \in DOMAIN out :
                    /\ out[k].matchType = "text"
                    /\ out[k].relevanceScore = Rat(8, 10)
                    /\ out[k].context = sKeywordPrefix \o out[k].content
\* one call in which title and author both matched, a header matched, a cell
\* matched and a keyword matched
C9_AllFixedScoreMatchersHit ==
    /\ op = "search"
    /\ query # <<>>
    /\ \E i \in DOMAIN scans :
        scans[i].matcher = "metadata" /\ Len(scans[i].out) = 2
    /\ \E i \in DOMAIN scans :
        /\ scans[i].matcher = "table"
        /\ \E k \in DOMAIN scans[i].out : scans[i].out[k].relevanceScore = Rat(7, 10)
        /\ \E k \in DOMAIN scans[i].out : scans[i].out[k].relevanceScore = Rat(6, 10)
    /\ \E i \in DOMAIN scans :
        scans[i].matcher = "keywords" /\ scans[i].out # <<>>

\* C10: semanticSearch yields a candidate for a text only if the similarity is
\* above 0.1 and for a summary only if it is above 0.2; the candidate's score
\* is the similarity, so 0 when no term is shared and nothing is yielded; the
\* returned list is in non-increasing score order.  The query
\* "financial results" against the summary "Annual financial results and
\* outlook" has similarity 2/5 and is yielded.
C10_SemanticThresholds ==
    op = "semanticSearch" =>
        /\ \A i \in DOMAIN scans :
            LET sc == scans[i] IN
            /\ sc.matcher = "semanticText" =>
                  (sc.out # <<>> <=> RGt(sc.similarity, Rat(1, 10)))
            /\ sc.matcher = "semanticSummary" =>
                  (sc.out # <<>> <=> RGt(sc.similarity, Rat(2, 10)))
            /\ sc.out # <<>> =>
                  /\ Len(sc.out) = 1
                  /\ sc.out[1].relevanceScore = sc.similarity
                  /\ sc.out[1].matchType = "text"
            /\ Range(preprocessQuery(query)) \cap Range(preprocessQuery(sc.input)) = {}
                  => (sc.out = <<>> /\ sc.similarity = RInt(0))
            /\ (query = sFinancialResults /\ sc.matcher = "semanticSummary"
                    /\ sc.input = sFinancialSummary)
                  => (sc.similarity = Rat(2, 5) /\ sc.out # <<>>)
        /\ ScoresNonIncreasing(results)
        /\ Len(candidates) <= MaxResultsOf => Range(results) = Range(candidates)
\* the summary of similarity 2/5 was returned in a call in which another text
\* or summary was not similar enough
C10_SimilarSummaryReturned ==
    /\ op = "semanticSearch"
    /\ query = sFinancialResults
    /\ \E i \in DOMAIN results :
        /\ results[i].content = sFinancialSummary
        /\ results[i].relevanceScore = Rat(2, 5)
    /\ \E i \in DOMAIN scans : scans[i].out = <<>>


\* a document passes every filter that the criteria supply
PassesFilters(crit, file) ==
    /\ ("fileTypes" \in DOMAIN crit /\ crit.fileTypes # <<>>)
            => file.type \in Range(crit.fileTypes)
    /\ "dateRange" \in DOMAIN crit
            => (crit.dateRange.start <= file.uploadDate
                    /\ file.uploadDate <= crit.dateRange.end)
    /\ "sizeRange" \in DOMAIN crit
            => (crit.sizeRange.min <= file.size /\ file.size <= crit.sizeRange.max)
Survivors(crit, fs) ==
    LET Passes(file) == PassesFilters(crit, file) IN SelectSeq(fs, Passes)
OnBound(crit, file) ==
    \/ "dateRange" \in DOMAIN crit
          /\ file.uploadDate \in {crit.dateRange.start, crit.dateRange.end}
    \/ "sizeRange" \in DOMAIN crit
          /\ file.size \in {crit.sizeRange.min, crit.sizeRange.max}

\* C11: with a non-empty criteria.query, advancedSearch returns what search
\* returns for that query and the criteria's options over the documents that
\* pass the supplied type, date and size filters (bounds included), so every
\* result belongs to a document that passes them.
C11_AdvancedIsSearchOverSurvivors ==
    (op = "advancedSearch" /\ Truthy(criteria, "query")) =>
        /\ ~threw
        /\ results = SearchStages(criteria.query, Survivors(criteria, files),
                                  Opt(criteria, "searchOptions", <<>>),
                                  collation).results
        /\ \A r \in Range(results) :
              \E f \in Range(files) : f.id = r.fileId /\ PassesFilters(criteria, f)
\* a result of a document that lies on a bound was returned while another
\* document was filtered out
C11_BoundaryDocumentReturned ==
    /\ op = "advancedSearch"
    /\ Truthy(criteria, "query")
    /\ Len(Survivors(criteria, files)) < Len(files)
    /\ \E f \in Range(files) :
        /\ OnBound(criteria, f)
        /\ \E r \in Range(results) : r.fileId = f.id


\* the text of a document, the empty string when it has none
TextOf(file) ==
    IF "text" \in DOMAIN file.extractedContent THEN file.extractedContent.text ELSE <<>>

\* C12: without a query (absent or empty) advancedSearch returns one result
\* per document that passes the filters, in the documents' order, with score
\* 1, type text and as content the summary when there is one and the first
\* 200 characters of the text otherwise.
C12_OneResultPerSurvivor ==
    (op = "advancedSearch" /\ ~Truthy(criteria, "query")) =>
        LET kept == Survivors(criteria, files) IN
        /\ Len(results) = Len(kept)
        /\ \A i \in DOMAIN kept :
            /\ results[i].fileId = kept[i].id
            /\ results[i].fileName = kept[i].name
            /\ results[i].relevanceScore = RInt(1)
            /\ results[i].matchType = "text"
            /\ results[i].content
                 = IF Truthy(kept[i].extractedContent, "summary")
                   THEN kept[i].extractedContent.summary
                   ELSE SubSeq(TextOf(kept[i]), 1, Min(200, Len(TextOf(kept[i]))))

\* C15: no entry point raises for documents whose optional fields, text,
\* images and tables are absent or empty, and such a document contributes no
\* candidate.
C15_SparseDocumentsNeverRaise ==
    op # "none" =>
        /\ ~threw
        /\ \A i \in DOMAIN scans :
              scans[i].fileId \in {BareDoc.id, BlankDoc.id} => scans[i].out = <<>>


RECURSIVE SumCounts(_)
SumCounts(m) ==
    IF DOMAIN m = {} THEN 0
    ELSE LET k == CHOOSE x \in DOMAIN m : TRUE
         IN  m[k] + SumCounts([x \in DOMAIN m \ {k} |-> m[x]])
LanguageOf(file) ==
    IF "language" \in DOMAIN file.extractedContent.metadata
        /\ file.extractedContent.metadata.language # ""
    THEN file.extractedContent.metadata.language
    ELSE "unknown"

\* C13: the file-type counts of getFacets add up to the number of documents,
\* and so do the language counts, a document without a language counting as
\* "unknown"; each count is the number of documents of that type or language.
C13_FacetCountsSumToTotal ==
    op = "getFacets" =>
        /\ SumCounts(facets.fileTypes) = Len(files)
        /\ SumCounts(facets.languages) = Len(files)
        /\ DOMAIN facets.fileTypes = {files[i].type : i \in DOMAIN files}
        /\ \A t \in DOMAIN facets.fileTypes :
              facets.fileTypes[t] = Cardinality({i \in DOMAIN files : files[i].type = t})
        /\ \A l \in DOMAIN facets.languages :
              facets.languages[l]
                  = Cardinality({i \in DOMAIN files : LanguageOf(files[i]) = l})
\* two documents of one type were counted, and another one without a language
C13_SharedTypeCounted ==
    /\ op = "getFacets"
    /\ \E t \in DOMAIN facets.fileTypes : facets.fileTypes[t] >= 2
    /\ "unknown" \in DOMAIN facets.languages

Reorderings(fs) ==
    {[i \in DOMAIN fs |-> fs[p[i]]] : p \in Permutations(DOMAIN fs)}

\* C14: getFacets returns the same four count mappings for every reordering
\* of the document collection.
C14_FacetsIgnoreDocumentOrder ==
    op = "getFacets" =>
        \A fs \in Reorderings(files) : getFacets(fs) = facets
\* facets of two documents that differ in type, language, author and topics
C14_DifferentDocumentsCounted ==
    /\ op = "getFacets"
    /\ Len(files) >= 2
    /\ Cardinality(DOMAIN facets.fileTypes) >= 2
    /\ Cardinality(DOMAIN facets.languages) >= 2
    /\ Cardinality(DOMAIN facets.authors) >= 2
    /\ DOMAIN facets.topics # {}


Thresholds ==
    {RInt(0), Rat(1, 10), Rat(1, 2), Rat(6, 10), Rat(8, 10), Rat(9, 10), RInt(1)}
WithThreshold(o, t) ==
    [f \in DOMAIN o \cup {"threshold"} |-> IF f = "threshold" THEN t ELSE o[f]]
CountAt(t) ==
    Len(SearchStages(query, files, WithThreshold(options, t), collation).results)

\* C17: for the same query, documents and other options, search returns at
\* most as many results with a threshold as with any lower threshold, also
\* when the list is cut to maxResults.
C17_ThresholdMonotone ==
    op = "search" =>
        \A t \in Thresholds :
            RLe(t, ThresholdOf) => Len(results) <= CountAt(t)
\* a lower threshold gives strictly more results than the call returned
C17_LowerThresholdGivesMore ==
    /\ op = "search"
    /\ query # <<>>
    /\ "threshold" \in DOMAIN options
    /\ results # <<>>
    /\ \E t \in Thresholds : RLt(t, ThresholdOf) /\ Len(results) < CountAt(t)


SameFragment(a, b) == a.fileId = b.fileId /\ a.content = b.content
\* what the text matcher found in a scan before it deduplicated
RawOccurrences(sc) ==
    LET terms == preprocessQuery(query)
    IN  Concat([k \in DOMAIN terms |->
                   TermOccurrences(terms[k], sc.input, toLowerCase(sc.input), 0,
                                   sc.fileId, <<>>, "text")])
FirstOfFragment(raw) ==
    LET First(i) == \A j \in 1..(i - 1) : ~SameFragment(raw[j], raw[i])
    IN  [k \in 1..Cardinality({i \in DOMAIN raw : First(i)}) |->
            raw[CHOOSE i \in DOMAIN raw :
                    /\ First(i)
                    /\ Cardinality({j \in 1..i : First(j)}) = k]]
RECURSIVE OutputsBefore(_)
OutputsBefore(i) == IF i = 1 THEN 0 ELSE OutputsBefore(i - 1) + Len(scans[i - 1].out)

\* C19: one run of the text matcher (over a text, an image's OCR text or a
\* summary) yields no two candidates with the same document id and content,
\* keeps the first of each such group in place, and is unchanged by
\* deduplicating again; candidates with the same document id and content that
\* come from different matcher runs of one search are all kept.
C19_DeduplicationPerScan ==
    op = "search" =>
        /\ \A i \in DOMAIN scans :
            scans[i].matcher \in {"text", "ocr", "summary"} =>
                LET out == scans[i].out
                    raw == FirstOfFragment(RawOccurrences(scans[i]))
                IN  /\ \A k, l \in DOMAIN out : SameFragment(out[k], out[l]) => k = l
                    /\ deduplicateResults(out) = out
                    /\ Len(out) = Len(raw)
                    /\ \A k \in DOMAIN out :
                          /\ out[k].content = raw[k].content
                          /\ out[k].relevanceScore = raw[k].relevanceScore
        /\ Len(candidates) = OutputsBefore(Len(scans) + 1)
        /\ \A i \in DOMAIN scans : \A k \in DOMAIN scans[i].out :
              candidates[OutputsBefore(i) + k] = scans[i].out[k]
\* one scan collapsed two occurrences, and two scans of one document each
\* gave a candidate with the same content, both of which were returned
C19_DuplicateAcrossScansReturned ==
    /\ op = "search"
    /\ \E i \in DOMAIN scans :
        /\ scans[i].matcher = "text"
        /\ Len(scans[i].out) < Len(RawOccurrences(scans[i]))
    /\ \E i, j \in DOMAIN scans :
        /\ i < j
        /\ scans[i].matcher = "text"
        /\ scans[j].matcher = "summary"
        /\ \E k \in DOMAIN scans[i].out : \E l \in DOMAIN scans[j].out :
              SameFragment(scans[i].out[k], scans[j].out[l])
    /\ \E a, b \in DOMAIN results : a < b /\ SameFragment(results[a], results[b])


FileIndex(id) == CHOOSE n \in DOMAIN files : files[n].id = id
\* the matcher order of the claim and the order in which search calls them
ClaimedRank ==
    [text |-> 1, ocr |-> 2, summary |-> 3, metadata |-> 4, table |-> 5, keywords |-> 6]
CallRank ==
    [text |-> 1, ocr |-> 2, metadata |-> 3, table |-> 4, summary |-> 5, keywords |-> 6]
ExpectedTableContexts(table, q) ==
    Concat([h \in DOMAIN table.headers |->
               IF includes(toLowerCase(table.headers[h]), q)
               THEN <<sHeaderPrefix \o table.headers[h]>> ELSE <<>>])
    \o Concat([r \in DOMAIN table.rows |->
                  Concat([c \in DOMAIN table.rows[r] |->
                             IF includes(toLowerCase(table.rows[r][c]), q)
                             THEN <<sCellPrefix \o NumStr(r) \o sCellCol \o NumStr(c)
                                    \o sCellSuffix \o table.rows[r][c]>>
                             ELSE <<>>])])
AtLeastThreshold(r) == RGe(r.relevanceScore, ThresholdOf)
\* the results are the thresholded candidates in discovery order, the
\* matchers of one document following rank
DiscoveryOrder(rank) ==
    /\ sorted = filtered
    /\ results = SubSeq(filtered, 1, Min(MaxResultsOf, Len(filtered)))
    /\ filtered = SelectSeq(candidates, AtLeastThreshold)
    /\ Len(candidates) = OutputsBefore(Len(scans) + 1)
    /\ \A i \in DOMAIN scans : \A k \in DOMAIN scans[i].out :
          candidates[OutputsBefore(i) + k] = scans[i].out[k]
    /\ \A i, j \in DOMAIN scans :
          (i < j /\ scans[i].out # <<>> /\ scans[j].out # <<>>) =>
              /\ FileIndex(scans[i].fileId) <= FileIndex(scans[j].fileId)
              /\ scans[i].fileId = scans[j].fileId
                    => rank[scans[i].matcher] <= rank[scans[j].matcher]
    /\ \A i \in DOMAIN scans :
          /\ (scans[i].matcher = "metadata" /\ Len(scans[i].out) = 2) =>
                /\ scans[i].out[1].relevanceScore = Rat(9, 10)
                /\ scans[i].out[2].relevanceScore = Rat(8, 10)
          /\ scans[i].matcher = "table" =>
                [k \in DOMAIN scans[i].out |-> scans[i].out[k].context]
                    = ExpectedTableContexts(scans[i].input, toLowerCase(query))

\* C20 (as stated): with a sort key other than relevance and name, search
\* returns the thresholded candidates in discovery order: documents in
\* collection order and, within a document, the matchers in the order text,
\* OCR, summary, metadata (title, author), tables (headers, then cells row by
\* row), keywords.
C20_DiscoveryOrderAsListed ==
    (op = "search" /\ SortByOf \notin {"relevance", "name"}) => DiscoveryOrder(ClaimedRank)
\* C20 (amended): as above, with the matchers of a document in the order
\* text, OCR, metadata (title, author), tables (headers, then cells row by
\* row), summary, keywords.
C20_DiscoveryOrderAsCalled ==
    (op = "search" /\ SortByOf \notin {"relevance", "name"}) => DiscoveryOrder(CallRank)
\* a metadata candidate and a later summary candidate of one document were
\* returned, in an order that is not the relevance order
C20_MetadataBeforeSummaryReturned ==
    /\ op = "search"
    /\ query # <<>>
    /\ SortByOf = "date"
    /\ Len(files) = 2
    /\ ~ScoresNonIncreasing(results)
    /\ \E i, j \in DOMAIN scans :
        /\ i < j
        /\ scans[i].fileId = scans[j].fileId
        /\ scans[i].matcher = "metadata"
        /\ scans[j].matcher = "summary"
        /\ \E k \in DOMAIN scans[i].out : \E l \in DOMAIN scans[j].out :
              \E a, b \in DOMAIN results :
                  a < b /\ results[a] = scans[i].out[k] /\ results[b] = scans[j].out[l]


\* what a request returns when it is the only call
Alone(req) ==
    CASE req.op = "search" ->
            SearchStages(req.query, req.files, req.options, collation).results
      [] req.op = "semanticSearch" ->
            SemanticStages(req.query, req.files, Opt(req.options, "maxResults", 20)).results
      [] req.op = "advancedSearch" ->
            AdvancedStages(req.criteria, req.files, collation).results
      [] req.op = "getFacets" -> getFacets(req.files)

ScansOf(file, matcher) ==
    {i \in DOMAIN scans : scans[i].fileId = file.id /\ scans[i].matcher = matcher}
FlagOf(f) == IF f \in DOMAIN options THEN options[f] ELSE TRUE
OcrTexts(file) ==
    {i \in DOMAIN file.extractedContent.images :
        Truthy(file.extractedContent.images[i], "ocrText")}

\* C21: each include flag gates exactly its own field and counts as true
\* when omitted: without includeOCR no result has match type ocr, without
\* includeMetadata none has match type metadata, without includeText no
\* result comes from a scan of a document's full text; tables, summary and
\* keywords are scanned whatever the three flags say.
C21_FlagsGateTheirField ==
    op = "search" =>
        /\ \A k \in DOMAIN results :
              \E i \in DOMAIN scans : \E l \in DOMAIN scans[i].out :
                  scans[i].out[l] = results[k]
        /\ ~FlagOf("includeOCR") =>
              \A k \in DOMAIN results : results[k].matchType # "ocr"
        /\ ~FlagOf("includeMetadata") =>
              \A k \in DOMAIN results : results[k].matchType # "metadata"
        /\ \A n \in DOMAIN files :
              LET file == files[n]
                  content == file.extractedContent
              IN  /\ Cardinality(ScansOf(file, "text"))
                       = IF FlagOf("includeText") /\ Truthy(content, "text")
                         THEN 1 ELSE 0
                  /\ Cardinality(ScansOf(file, "ocr"))
                       = IF FlagOf("includeOCR")
                         THEN Cardinality(OcrTexts(file)) ELSE 0
                  /\ Cardinality(ScansOf(file, "metadata"))
                       = IF FlagOf("includeMetadata") THEN 1 ELSE 0
                  /\ Cardinality(ScansOf(file, "table")) = Len(content.tables)
                  /\ Cardinality(ScansOf(file, "summary"))
                       = IF Truthy(content, "summary") THEN 1 ELSE 0
                  /\ Cardinality(ScansOf(file, "keywords"))
                       = IF "keywords" \in DOMAIN content THEN 1 ELSE 0
\* OCR was switched off for a document whose image text holds the query,
\* and the call still returned a table cell and a metadata match
C21_OcrOffOthersReturned ==
    /\ op = "search"
    /\ query # <<>>
    /\ "includeOCR" \in DOMAIN options /\ ~options.includeOCR
    /\ \E n \in DOMAIN files : \E i \in OcrTexts(files[n]) :
          includes(toLowerCase(files[n].extractedContent.images[i].ocrText),
                   toLowerCase(query))
    /\ \E k \in DOMAIN results : results[k].matchType = "metadata"
    /\ \E i \in DOMAIN scans :
          /\ scans[i].matcher = "table"
          /\ \E l \in DOMAIN scans[i].out : \E k \in DOMAIN results :
                scans[i].out[l] = results[k]

(***************************************************************************)
(* The helper methods.                                                     *)
(***************************************************************************)
\* the score the claim gives a match of term in text
ClaimedScore(term, text) ==
    LET lower == toLowerCase(text)
        n == Occurrences(lower, term)
        p == SetMin({i \in 0..Len(lower) : substring(lower, i, i + Len(term)) = term})
    IN  RMin(RInt(1),
             RAdd(RAdd(Rat(1, 2), Rat(3, 10)),
                  RAdd(RMin(Rat(1, 5), Rat(n, 20)),
                       RMul(Rat(1, 10), RSub(RInt(1), Rat(p, Len(text)))))))

\* C22: every candidate of the text matcher has a context window that holds
\* the matched term, so its score is min(1, 0.5 + 0.3 + min(0.2, 0.05 n) +
\* 0.1 (1 - p / L)) for the count n and the first offset p of the term in the
\* text of length L, which is at least 0.85.
C22_WindowHoldsTerm ==
    helper.name = "searchInText" =>
        \A k \in DOMAIN helper.value :
            \E t \in Range(preprocessQuery(helper.a)) :
                /\ includes(toLowerCase(helper.value[k].context), t)
                /\ helper.value[k].relevanceScore = ClaimedScore(t, helper.b)
                /\ RGe(helper.value[k].relevanceScore, Rat(85, 100))

\* C23: the relevance scorer returns a defined number for every term and
\* every text, the empty ones included: for a text of length 0 the bonus for
\* the position is 0, and no division by zero reaches the score.
C23_ScoreIsDefined ==
    helper.name = "calculateRelevanceScore" =>
        /\ ~IsNaN(helper.value)
        /\ RLe(RInt(0), helper.value) /\ RLe(helper.value, RInt(1))
        /\ Len(helper.b) = 0 =>
              helper.value
                = RAdd(IF includes(toLowerCase(helper.context), toLowerCase(helper.a))
                       THEN Rat(8, 10) ELSE Rat(1, 2),
                       RMin(Rat(1, 5),
                            Rat(MatchCount(toLowerCase(helper.b), toLowerCase(helper.a)),
                                20)))

TermSet(x) == Range(preprocessQuery(x))

\* C24: the similarity of a query and a text is |Q \cap T| / |Q \cup T| for
\* the sets Q and T of their normalized terms, 0 when both are empty; it lies
\* in [0, 1], is the same with the two arguments exchanged, and is 1 exactly
\* when Q = T is not empty.
C24_SimilarityIsJaccard ==
    helper.name = "calculateSemanticSimilarity" =>
        LET Q == TermSet(helper.a)
            T == TermSet(helper.b)
        IN  /\ helper.value
                 = IF Q \cup T = {} THEN RInt(0)
                   ELSE Rat(Cardinality(Q \cap T), Cardinality(Q \cup T))
            /\ RLe(RInt(0), helper.value) /\ RLe(helper.value, RInt(1))
            /\ calculateSemanticSimilarity(helper.b, helper.a) = helper.value
            /\ helper.value = RInt(1) <=> (Q = T /\ Q # {})
\* two different strings with the same terms, in another order and case
C24_SameTermsDifferentStrings ==
    /\ helper.name = "calculateSemanticSimilarity"
    /\ helper.a # helper.b
    /\ preprocessQuery(helper.a) # preprocessQuery(helper.b)
    /\ helper.value = RInt(1)

AlphaNumerics == Range(LowerChars) \cup Range(DigitChars)
IsSeparator(c) == LowerOf(c) \notin AlphaNumerics

\* C25: the normalizer returns the terms of its input in input order; each
\* is lower case, at least 3 long and made of a-z and 0-9 only, since every
\* other character, the underscore included, separates terms; an input
\* without a term of length 3 gives the empty sequence.
C25_TermsAreAlphaNumeric ==
    helper.name = "preprocessQuery" =>
        /\ \A k \in DOMAIN helper.value :
              /\ Len(helper.value[k]) >= 3
              /\ \A i \in DOMAIN helper.value[k] :
                    helper.value[k][i] \in AlphaNumerics
        /\ helper.value = SelectSeq(Split(toLowerCase(helper.a), IsSeparator), LongEnough)

\* C26: for a match of length m at offset o of a text, with o + m within
\* the text, the context is the text from s = max(0, o - 75) up to
\* e = min(length, o + m + 75), with "..." in front exactly when s > 0 and
\* "..." behind exactly when e is less than the length; the window holds the
\* whole match.
C26_ContextIsClampedWindow ==
    (helper.name = "extractContext"
     /\ helper.position + helper.matchLength <= Len(helper.b)) =>
        LET o == helper.position
            m == helper.matchLength
            s == IF o - 75 > 0 THEN o - 75 ELSE 0
            e == IF o + m + 75 < Len(helper.b) THEN o + m + 75 ELSE Len(helper.b)
            front == IF s > 0 THEN 3 ELSE 0
        IN  /\ helper.value
                 = (IF s > 0 THEN <<".", ".", ".">> ELSE <<>>)
                   \o [i \in 1..(e - s) |-> helper.b[s + i]]
                   \o (IF e < Len(helper.b) THEN <<".", ".", ".">> ELSE <<>>)
            /\ \A i \in 1..m : helper.value[front + (o - s) + i] = helper.b[o + i]
\* a match in the middle of a long text: the context is cut at both ends
C26_CutAtBothEnds ==
    /\ helper.name = "extractContext"
    /\ helper.matchLength > 0
    /\ helper.position > 75
    /\ helper.position + helper.matchLength + 75 < Len(helper.b)
    /\ Len(helper.value) = helper.matchLength + 156

(***************************************************************************)
(* The occurrence scan.                                                    *)
(***************************************************************************)
\* C27: the occurrence scan of the text matcher ends for every text and
\* query: every term is at least 3 long, each match moves the cursor
\* forward by at least the length of the term, one term gives at most
\* length of text / length of term candidates, and the call returns what
\* searchInText returns.
C27_ScanTerminates ==
    /\ [](loop.pc # "idle" =>
            /\ \A k \in DOMAIN loop.queryTerms : Len(loop.queryTerms[k]) >= 3
            /\ \A k \in DOMAIN loop.pushed :
                  loop.pushed[k] * Len(loop.queryTerms[k]) <= Len(helper.b)
            /\ loop.pc = "returned" =>
                  helper.value
                    = searchInText(helper.a, helper.b, sF1, sNameReport, "text"))
    /\ [][(loop.pc = "while" /\ loop'.pc = "while") =>
             loop'.index >= loop.index + Len(loop.queryTerms[loop.k])]_vars
    /\ <>(loop.pc = "returned")
\* a scan of two terms returned, one of which matched more than once
C27_TwoTermsSeveralMatches ==
    /\ loop.pc = "returned"
    /\ Len(loop.queryTerms) >= 2
    /\ \E k \in DOMAIN loop.pushed : loop.pushed[k] >= 2
    /\ \E k \in DOMAIN loop.pushed : loop.pushed[k] = 0

(***************************************************************************)
(* The facet counts.                                                       *)
(***************************************************************************)
\* C28: every count in the four mappings that getFacets returns counts
\* documents: it is at least 1 and at most the number of documents, also
\* when the topic list of a document names a topic more than once.
C28_CountsAreDocumentCounts ==
    op = "getFacets" =>
        \A f \in {"fileTypes", "languages", "topics", "authors"} :
            \A key \in DOMAIN facets[f] :
                /\ facets[f][key] >= 1
                /\ facets[f][key] <= Len(files)

(***************************************************************************)
(* The file store.                                                         *)
(***************************************************************************)
\* C29: after any sequence of ADD_FILE, BULK_ADD_FILES, UPDATE_FILE,
\* REMOVE_FILE, SELECT_FILE, DESELECT_FILE and CLEAR_SELECTION from the
\* initial state, processingStats.totalFiles is the number of entries of
\* files, also after REMOVE_FILE with an id that is not in files.
C29_TotalFilesCountsFiles ==
    state.processingStats.totalFiles = Len(state.files)

(***************************************************************************)
(* The debounced function.                                                 *)
(***************************************************************************)
RunsIn(l) == {i \in DOMAIN l : l[i].kind = "run"}
\* the last call before entry j of the log, 0 if there is none
CallBefore(j) ==
    IF \E i \in CallsIn(log) : i < j
    THEN CHOOSE i \in CallsIn(log) : i < j /\ \A k \in CallsIn(log) : k < j => k <= i
    ELSE 0
\* the first call after entry i of the log, one past its end if there is none
CallAfter(i) ==
    IF \E j \in CallsIn(log) : j > i
    THEN CHOOSE j \in CallsIn(log) : j > i /\ \A k \in CallsIn(log) : k > i => k >= j
    ELSE Len(log) + 1
RunsOf(i) == {k \in RunsIn(log) : i < k /\ k < CallAfter(i)}
\* the timer that call i set
TimerOf(i) ==
    [id |-> Cardinality({k \in CallsIn(log) : k <= i}),
     due |-> log[i].at + wait, args |-> log[i].args]

\* func runs only from the timer of the last call before it, with that
\* call's arguments, at most once and not before the wait is over
RunsAreOfLastCall ==
    \A j \in RunsIn(log) :
        /\ CallBefore(j) # 0
        /\ log[j].args = log[CallBefore(j)].args
        /\ log[j].at >= log[CallBefore(j)].at + wait
        /\ RunsOf(CallBefore(j)) = {j}

\* C30 as stated: func never runs inside a call of d, each call cancels the
\* timer of the call before, and a burst of calls less than the wait apart
\* makes func run exactly once, with the arguments of its last call, when
\* the wait after that call is over: a burst that a later call follows has
\* had its one run.
C30_EveryBurstRunsOnce ==
    /\ RunsAreOfLastCall
    /\ \A i \in CallsIn(log) :
        (CallAfter(i) <= Len(log) /\ log[CallAfter(i)].at - log[i].at >= wait) =>
            Cardinality(RunsOf(i)) = 1

\* C30: func never runs inside a call of d; each call cancels the timer of
\* the call before; func runs only with the arguments of the last call made
\* before it, at most once for that call and not before the wait after it is
\* over; the last call of all has either had its run or still has its timer
\* pending, and in the end no timer is pending.
C30_LastCallRunsOnce ==
    /\ [](/\ RunsAreOfLastCall
          /\ \A i \in CallsIn(log) :
                /\ CallAfter(i) <= Len(log) => TimerOf(i) \notin timers
                /\ CallAfter(i) > Len(log) =>
                      \/ RunsOf(i) = {} /\ timers = {TimerOf(i)}
                      \/ Cardinality(RunsOf(i)) = 1 /\ timers = {})
    /\ [][Cardinality(CallsIn(log')) > Cardinality(CallsIn(log)) =>
             RunsIn(log') = RunsIn(log)]_vars
    /\ <>[](timers = {})
\* two calls less than the wait apart with different arguments, then one run
\* with the arguments of the second
C30_BurstOfTwoRan ==
    \E i \in DOMAIN log :
        /\ i + 2 <= Len(log)
        /\ log[i].kind = "call" /\ log[i + 1].kind = "call" /\ log[i + 2].kind = "run"
        /\ log[i + 1].at - log[i].at < wait
        /\ log[i + 1].args # log[i].args
        /\ log[i + 2].args = log[i + 1].args

====
